---- MODULE Spec2Model ----
(***************************************************************************)
(* The OpenFlow message stream of util/stream.go: the reader that cuts     *)
(* frames out of the transport's byte stream (MessageStream.inbound), the  *)
(* pool of parser workers (streamWorker.parse), the writer                 *)
(* (MessageStream.outbound) and the channels between them.                 *)
(*                                                                         *)
(* The byte stream the peer sends is a sequence of segments; a segment is  *)
(* a run of explicit bytes followed by zero bytes up to its length.  The   *)
(* reader's bytes.Buffer always holds the bytes received and not yet cut   *)
(* off, so it is kept as two offsets into the stream (rcvd, off) and the   *)
(* one in-place overwrite the reader makes (marked).                       *)
(*                                                                         *)
(* The OXM match codec of package openflow15 comes second: MatchField,    *)
(* OxmId and Match with their MarshalBinary and UnmarshalBinary, the      *)
(* dispatch of DecodeMatchField, the payload types and the builders.  A   *)
(* caller drives it (SpecCodec, SpecLong) while the stream is idle; the   *)
(* stream specifications leave the codec untouched.                       *)
(***************************************************************************)
EXTENDS Integers, Sequences, FiniteSets, TLC

(* ------------------------------------------------------------------ *)
(* Program constants                                                    *)
(* ------------------------------------------------------------------ *)
numParserGoroutines == 25
TmpBufSize == 2048
HeaderPeek == 4
Type_Experimenter == 4
VendorHeaderLen == 16
Type_PacketIn2 == 30
PacketIn2PeekLen == 20
NXPINT_PACKET == 0
OversizeIncrement == 65536
MinMsgLen == 8
ChanCap == 1
\* 0x10002320, the bytes PutUint32 writes at buf[8:12]
OversizeVendor == <<16, 0, 35, 32>>

(* ------------------------------------------------------------------ *)
(* Bounds of the model                                                  *)
(* ------------------------------------------------------------------ *)
\* largest short read the transport returns; it also returns full reads
MaxChunk == 16
\* short reads happen while fewer than this many bytes are buffered
MaxFine == 16
\* messages the caller submits on Outbound
MaxOut == 2
\* shutdown signals the caller sends on Shutdown
MaxCallerShutdown == 1
\* the fields added to one match
MaxFields == 2
\* a long match: the fields it holds to begin with, and the most it gets
LongPrefix == 1820
MaxLongFields == 1921
\* the longest Data a TCP value holds
MaxData == 13

Min(a, b) == IF a < b THEN a ELSE b

(* ------------------------------------------------------------------ *)
(* The byte streams fed to the reader                                   *)
(* ------------------------------------------------------------------ *)
U16Bytes(n) == <<n \div 256, n % 256>>
U32Bytes(n) == <<0, 0>> \o U16Bytes(n)

\* version | type | length | xid
Hdr(type, len, xid) == <<6, type>> \o U16Bytes(len) \o U32Bytes(xid)

\* An Experimenter message: header, vendor id, experimenter type, then the
\* first property header (property id, property length).
ExpMsg(len, xid, expType, prop, propLen) ==
    Hdr(Type_Experimenter, len, xid) \o <<0, 0, 35, 32>> \o U32Bytes(expType)
        \o U16Bytes(prop) \o U16Bytes(propLen)

\* The segments streams are built from: hdr is the explicit bytes, len the
\* number of bytes of the segment (zero bytes follow hdr), wellFormed says
\* the segment is one frame a correct sender emits.
Segment ==
    [ hello0  |-> [hdr |-> Hdr(0, 8, 0),   len |-> 8,  wellFormed |-> TRUE],
      hello1  |-> [hdr |-> Hdr(0, 8, 1),   len |-> 8,  wellFormed |-> TRUE],
      echo25  |-> [hdr |-> Hdr(2, 12, 25), len |-> 12, wellFormed |-> TRUE],
      vendor  |-> [hdr |-> ExpMsg(24, 26, 16, 0, 0),  len |-> 24, wellFormed |-> TRUE],
      pktIn2  |-> [hdr |-> ExpMsg(32, 1, 30, 0, 14),  len |-> 32, wellFormed |-> TRUE],
      pktIn2b |-> [hdr |-> ExpMsg(24, 0, 30, 1, 200), len |-> 24, wellFormed |-> TRUE],
      bigPkt  |-> [hdr |-> ExpMsg(40, 1, 30, 0, 4096),
                   len |-> 40 + OversizeIncrement, wellFormed |-> TRUE],
      short5  |-> [hdr |-> Hdr(0, 5, 0),   len |-> 8,  wellFormed |-> FALSE],
      vshort5 |-> [hdr |-> ExpMsg(5, 0, 16, 0, 0),    len |-> 16, wellFormed |-> FALSE] ]

SegmentNames == DOMAIN Segment

RECURSIVE WireLen(_)
WireLen(w) == IF w = <<>> THEN 0 ELSE Segment[Head(w)].len + WireLen(Tail(w))

\* The byte at 0-based position pos of stream w (pos < WireLen(w)).
RECURSIVE WireByte(_, _)
WireByte(w, pos) ==
    LET s == Segment[Head(w)]
    IN IF pos < s.len
       THEN (IF pos < Len(s.hdr) THEN s.hdr[pos + 1] ELSE 0)
       ELSE WireByte(Tail(w), pos - s.len)

\* The frames a stream consists of, as [start, len].
RECURSIVE WireFrames(_, _)
WireFrames(w, at) ==
    IF w = <<>> THEN <<>>
    ELSE <<[start |-> at, len |-> Segment[Head(w)].len]>>
            \o WireFrames(Tail(w), at + Segment[Head(w)].len)

WireWellFormed(w) == \A i \in DOMAIN w : Segment[w[i]].wellFormed

\* every stream of one segment or two
FramerWires ==
    { <<a>> : a \in SegmentNames } \cup { <<a, b>> : a, b \in SegmentNames }

\* The worker indices the xids of the segments above select (xid mod 25);
\* the other workers of the pool never receive a frame and are counted,
\* not named.
ActiveKeys ==
    { (((Segment[s].hdr[5] * 256 + Segment[s].hdr[6]) * 256 + Segment[s].hdr[7])
          * 256 + Segment[s].hdr[8]) % numParserGoroutines : s \in SegmentNames }

(* ------------------------------------------------------------------ *)
(* The OXM match codec (package openflow15): fields, enumerations       *)
(* ------------------------------------------------------------------ *)
MatchType_OXM == 1
OXM_CLASS_NXM_0 == 0
OXM_CLASS_NXM_1 == 1
OXM_CLASS_OPENFLOW_BASIC == 32768
OXM_CLASS_PACKET_REGS == 32769
OXM_CLASS_EXPERIMENTER == 65535
ONF_EXPERIMENTER_ID == 1330529792
OXM_FIELD_IN_PORT == 0
OXM_FIELD_IN_PHY_PORT == 1
OXM_FIELD_METADATA == 2
OXM_FIELD_ETH_DST == 3
OXM_FIELD_ETH_SRC == 4
OXM_FIELD_ETH_TYPE == 5
OXM_FIELD_VLAN_VID == 6
OXM_FIELD_VLAN_PCP == 7
OXM_FIELD_IP_DSCP == 8
OXM_FIELD_IP_ECN == 9
OXM_FIELD_IP_PROTO == 10
OXM_FIELD_IPV4_SRC == 11
OXM_FIELD_IPV4_DST == 12
OXM_FIELD_TCP_SRC == 13
OXM_FIELD_TCP_DST == 14
OXM_FIELD_UDP_SRC == 15
OXM_FIELD_UDP_DST == 16
OXM_FIELD_SCTP_SRC == 17
OXM_FIELD_SCTP_DST == 18
OXM_FIELD_ICMPV4_TYPE == 19
OXM_FIELD_ICMPV4_CODE == 20
OXM_FIELD_ARP_OP == 21
OXM_FIELD_ARP_SPA == 22
OXM_FIELD_ARP_TPA == 23
OXM_FIELD_ARP_SHA == 24
OXM_FIELD_ARP_THA == 25
OXM_FIELD_IPV6_SRC == 26
OXM_FIELD_IPV6_DST == 27
OXM_FIELD_IPV6_FLABEL == 28
OXM_FIELD_ICMPV6_TYPE == 29
OXM_FIELD_ICMPV6_CODE == 30
OXM_FIELD_IPV6_ND_TARGET == 31
OXM_FIELD_IPV6_ND_SLL == 32
OXM_FIELD_IPV6_ND_TLL == 33
OXM_FIELD_MPLS_LABEL == 34
OXM_FIELD_MPLS_TC == 35
OXM_FIELD_MPLS_BOS == 36
OXM_FIELD_PBB_ISID == 37
OXM_FIELD_TUNNEL_ID == 38
OXM_FIELD_IPV6_EXTHDR == 39
OXM_FIELD_PBB_UCA == 41
OXM_FIELD_TCP_FLAGS == 42
OXM_FIELD_ACTSET_OUTPUT == 43
OXM_FIELD_PACKET_TYPE == 44
NXM_NX_REG0 == 0
NXM_NX_REG1 == 1
NXM_NX_REG2 == 2
NXM_NX_REG3 == 3
NXM_NX_REG4 == 4
NXM_NX_REG5 == 5
NXM_NX_REG6 == 6
NXM_NX_REG7 == 7
NXM_NX_REG8 == 8
NXM_NX_REG9 == 9
NXM_NX_REG10 == 10
NXM_NX_REG11 == 11
NXM_NX_REG12 == 12
NXM_NX_REG13 == 13
NXM_NX_REG14 == 14
NXM_NX_REG15 == 15
NXM_NX_TUN_ID == 16
NXM_NX_ARP_SHA == 17
NXM_NX_ARP_THA == 18
NXM_NX_IPV6_SRC == 19
NXM_NX_IPV6_DST == 20
NXM_NX_ICMPV6_TYPE == 21
NXM_NX_ICMPV6_CODE == 22
NXM_NX_ND_TARGET == 23
NXM_NX_ND_SLL == 24
NXM_NX_ND_TLL == 25
NXM_NX_IP_FRAG == 26
NXM_NX_IPV6_LABEL == 27
NXM_NX_IP_ECN == 28
NXM_NX_IP_TTL == 29
NXM_NX_MPLS_TTL == 30
NXM_NX_TUN_IPV4_SRC == 31
NXM_NX_TUN_IPV4_DST == 32
NXM_NX_PKT_MARK == 33
NXM_NX_TCP_FLAGS == 34
NXM_NX_DP_HASH == 35
NXM_NX_RECIRC_ID == 36
NXM_NX_CONJ_ID == 37
NXM_NX_TUN_GBP_ID == 38
NXM_NX_TUN_GBP_FLAGS == 39
NXM_NX_TUN_METADATA0 == 40
NXM_NX_TUN_METADATA1 == 41
NXM_NX_TUN_METADATA2 == 42
NXM_NX_TUN_METADATA3 == 43
NXM_NX_TUN_METADATA4 == 44
NXM_NX_TUN_METADATA5 == 45
NXM_NX_TUN_METADATA6 == 46
NXM_NX_TUN_METADATA7 == 47
NXM_NX_TUN_FLAGS == 104
NXM_NX_CT_STATE == 105
NXM_NX_CT_ZONE == 106
NXM_NX_CT_MARK == 107
NXM_NX_CT_LABEL == 108
NXM_NX_TUN_IPV6_SRC == 109
NXM_NX_TUN_IPV6_DST == 110
NXM_NX_XXREG0 == 111
NXM_NX_XXREG1 == 112
NXM_NX_XXREG2 == 113
NXM_NX_XXREG3 == 114
NXM_NX_CT_NW_PROTO == 119
NXM_NX_CT_NW_SRC == 120
NXM_NX_CT_NW_DST == 121
NXM_NX_CT_IPV6_SRC == 122
NXM_NX_CT_IPV6_DST == 123
NXM_NX_CT_TP_SRC == 124
NXM_NX_CT_TP_DST == 125
OXM_PACKET_REG0 == 0
OXM_PACKET_REG1 == 1
OXM_PACKET_REG2 == 2
OXM_PACKET_REG3 == 3
OXM_PACKET_REG4 == 4
OXM_PACKET_REG5 == 5
OXM_PACKET_REG6 == 6
OXM_PACKET_REG7 == 7
OFPVID_PRESENT == 4096
\* Which payload type DecodeMatchField creates for a field of each class:
\* "nil" where the case assigns nothing to val, "unhandled" for default.

DecoderBasic(field) ==
    CASE field = OXM_FIELD_IN_PORT -> "InPortField"
      [] field = OXM_FIELD_IN_PHY_PORT -> "InPhyPortField"
      [] field = OXM_FIELD_METADATA -> "MetadataField"
      [] field = OXM_FIELD_ETH_DST -> "EthDstField"
      [] field = OXM_FIELD_ETH_SRC -> "EthSrcField"
      [] field = OXM_FIELD_ETH_TYPE -> "EthTypeField"
      [] field = OXM_FIELD_VLAN_VID -> "VlanIdField"
      [] field = OXM_FIELD_VLAN_PCP -> "VlanPcpField"
      [] field = OXM_FIELD_IP_DSCP -> "IpDscpField"
      [] field = OXM_FIELD_IP_ECN -> "IpEcnField"
      [] field = OXM_FIELD_IP_PROTO -> "IpProtoField"
      [] field = OXM_FIELD_IPV4_SRC -> "Ipv4SrcField"
      [] field = OXM_FIELD_IPV4_DST -> "Ipv4DstField"
      [] field = OXM_FIELD_TCP_SRC -> "PortField"
      [] field = OXM_FIELD_TCP_DST -> "PortField"
      [] field = OXM_FIELD_UDP_SRC -> "PortField"
      [] field = OXM_FIELD_UDP_DST -> "PortField"
      [] field = OXM_FIELD_SCTP_SRC -> "PortField"
      [] field = OXM_FIELD_SCTP_DST -> "PortField"
      [] field = OXM_FIELD_ICMPV4_TYPE -> "IcmpTypeField"
      [] field = OXM_FIELD_ICMPV4_CODE -> "IcmpCodeField"
      [] field = OXM_FIELD_ARP_OP -> "ArpOperField"
      [] field = OXM_FIELD_ARP_SPA -> "ArpXPaField"
      [] field = OXM_FIELD_ARP_TPA -> "ArpXPaField"
      [] field = OXM_FIELD_ARP_SHA -> "ArpXHaField"
      [] field = OXM_FIELD_ARP_THA -> "ArpXHaField"
      [] field = OXM_FIELD_IPV6_SRC -> "Ipv6SrcField"
      [] field = OXM_FIELD_IPV6_DST -> "Ipv6DstField"
      [] field = OXM_FIELD_IPV6_FLABEL -> "Ipv6FLabelField"
      [] field = OXM_FIELD_ICMPV6_TYPE -> "IcmpTypeField"
      [] field = OXM_FIELD_ICMPV6_CODE -> "IcmpCodeField"
      [] field = OXM_FIELD_IPV6_ND_TARGET -> "Ipv6DstField"
      [] field = OXM_FIELD_IPV6_ND_SLL -> "EthSrcField"
      [] field = OXM_FIELD_IPV6_ND_TLL -> "EthDstField"
      [] field = OXM_FIELD_MPLS_LABEL -> "MplsLabelField"
      [] field = OXM_FIELD_MPLS_TC -> "MplsTcField"
      [] field = OXM_FIELD_MPLS_BOS -> "MplsBosField"
      [] field = OXM_FIELD_PBB_ISID -> "PbbIsidField"
      [] field = OXM_FIELD_TUNNEL_ID -> "TunnelIdField"
      [] field = OXM_FIELD_IPV6_EXTHDR -> "Ipv6ExtHdrField"
      [] field = OXM_FIELD_TCP_FLAGS -> "TcpFlagsField"
      [] field = OXM_FIELD_ACTSET_OUTPUT -> "ActsetOutputField"
      [] OTHER -> "unhandled"

DecoderNxm1(field) ==
    CASE field = NXM_NX_REG0 -> "Uint32Message"
      [] field = NXM_NX_REG1 -> "Uint32Message"
      [] field = NXM_NX_REG2 -> "Uint32Message"
      [] field = NXM_NX_REG3 -> "Uint32Message"
      [] field = NXM_NX_REG4 -> "Uint32Message"
      [] field = NXM_NX_REG5 -> "Uint32Message"
      [] field = NXM_NX_REG6 -> "Uint32Message"
      [] field = NXM_NX_REG7 -> "Uint32Message"
      [] field = NXM_NX_REG8 -> "Uint32Message"
      [] field = NXM_NX_REG9 -> "Uint32Message"
      [] field = NXM_NX_REG10 -> "Uint32Message"
      [] field = NXM_NX_REG11 -> "Uint32Message"
      [] field = NXM_NX_REG12 -> "Uint32Message"
      [] field = NXM_NX_REG13 -> "Uint32Message"
      [] field = NXM_NX_REG14 -> "Uint32Message"
      [] field = NXM_NX_REG15 -> "Uint32Message"
      [] field = NXM_NX_TUN_ID -> "nil"
      [] field = NXM_NX_ARP_SHA -> "ArpXHaField"
      [] field = NXM_NX_ARP_THA -> "ArpXHaField"
      [] field = NXM_NX_IPV6_SRC -> "Ipv6SrcField"
      [] field = NXM_NX_IPV6_DST -> "Ipv6DstField"
      [] field = NXM_NX_ICMPV6_TYPE -> "IcmpTypeField"
      [] field = NXM_NX_ICMPV6_CODE -> "IcmpCodeField"
      [] field = NXM_NX_ND_TARGET -> "Ipv6DstField"
      [] field = NXM_NX_ND_SLL -> "EthDstField"
      [] field = NXM_NX_ND_TLL -> "EthSrcField"
      [] field = NXM_NX_IP_FRAG -> "nil"
      [] field = NXM_NX_IPV6_LABEL -> "nil"
      [] field = NXM_NX_IP_ECN -> "nil"
      [] field = NXM_NX_IP_TTL -> "TtlField"
      [] field = NXM_NX_MPLS_TTL -> "nil"
      [] field = NXM_NX_TUN_IPV4_SRC -> "TunnelIpv4SrcField"
      [] field = NXM_NX_TUN_IPV4_DST -> "TunnelIpv4DstField"
      [] field = NXM_NX_PKT_MARK -> "Uint32Message"
      [] field = NXM_NX_TCP_FLAGS -> "nil"
      [] field = NXM_NX_DP_HASH -> "nil"
      [] field = NXM_NX_RECIRC_ID -> "nil"
      [] field = NXM_NX_CONJ_ID -> "Uint32Message"
      [] field = NXM_NX_TUN_GBP_ID -> "nil"
      [] field = NXM_NX_TUN_GBP_FLAGS -> "nil"
      [] field = NXM_NX_TUN_METADATA0 -> "ByteArrayField"
      [] field = NXM_NX_TUN_METADATA1 -> "ByteArrayField"
      [] field = NXM_NX_TUN_METADATA2 -> "ByteArrayField"
      [] field = NXM_NX_TUN_METADATA3 -> "ByteArrayField"
      [] field = NXM_NX_TUN_METADATA4 -> "ByteArrayField"
      [] field = NXM_NX_TUN_METADATA5 -> "ByteArrayField"
      [] field = NXM_NX_TUN_METADATA6 -> "ByteArrayField"
      [] field = NXM_NX_TUN_METADATA7 -> "ByteArrayField"
      [] field = NXM_NX_TUN_FLAGS -> "nil"
      [] field = NXM_NX_CT_STATE -> "Uint32Message"
      [] field = NXM_NX_CT_ZONE -> "Uint16Message"
      [] field = NXM_NX_CT_MARK -> "Uint32Message"
      [] field = NXM_NX_CT_LABEL -> "CTLabel"
      [] field = NXM_NX_TUN_IPV6_SRC -> "Ipv6SrcField"
      [] field = NXM_NX_TUN_IPV6_DST -> "Ipv6DstField"
      [] field = NXM_NX_CT_NW_PROTO -> "IpProtoField"
      [] field = NXM_NX_CT_NW_SRC -> "Ipv4SrcField"
      [] field = NXM_NX_CT_NW_DST -> "Ipv4DstField"
      [] field = NXM_NX_CT_IPV6_SRC -> "Ipv6SrcField"
      [] field = NXM_NX_CT_IPV6_DST -> "Ipv6DstField"
      [] field = NXM_NX_CT_TP_DST -> "PortField"
      [] field = NXM_NX_CT_TP_SRC -> "PortField"
      [] field = NXM_NX_XXREG0 -> "ByteArrayField"
      [] field = NXM_NX_XXREG1 -> "ByteArrayField"
      [] field = NXM_NX_XXREG2 -> "ByteArrayField"
      [] field = NXM_NX_XXREG3 -> "ByteArrayField"
      [] OTHER -> "unhandled"

DecoderPacketRegs(field) ==
    CASE field = OXM_PACKET_REG0 -> "ByteArrayField"
      [] field = OXM_PACKET_REG1 -> "ByteArrayField"
      [] field = OXM_PACKET_REG2 -> "ByteArrayField"
      [] field = OXM_PACKET_REG3 -> "ByteArrayField"
      [] field = OXM_PACKET_REG4 -> "ByteArrayField"
      [] field = OXM_PACKET_REG5 -> "ByteArrayField"
      [] field = OXM_PACKET_REG6 -> "ByteArrayField"
      [] field = OXM_PACKET_REG7 -> "ByteArrayField"
      [] OTHER -> "unhandled"

DecoderExperimenter(field) ==
    CASE field = OXM_FIELD_TCP_FLAGS -> "TcpFlagsField"
      [] OTHER -> "unhandled"

\* Len() of each payload type, how it is laid out, and whether its
\* UnmarshalBinary tests len(data) before reading.
PayloadShape ==
    [ InPortField        |-> [kind |-> "uint", size |-> 4,  checked |-> FALSE],
      InPhyPortField     |-> [kind |-> "uint", size |-> 4,  checked |-> FALSE],
      EthDstField        |-> [kind |-> "mac",  size |-> 6,  checked |-> FALSE],
      EthSrcField        |-> [kind |-> "mac",  size |-> 6,  checked |-> FALSE],
      EthTypeField       |-> [kind |-> "uint", size |-> 2,  checked |-> FALSE],
      VlanIdField        |-> [kind |-> "uint", size |-> 2,  checked |-> FALSE],
      VlanPcpField       |-> [kind |-> "uint", size |-> 1,  checked |-> FALSE],
      MplsLabelField     |-> [kind |-> "uint", size |-> 4,  checked |-> FALSE],
      MplsTcField        |-> [kind |-> "uint", size |-> 1,  checked |-> FALSE],
      MplsBosField       |-> [kind |-> "uint", size |-> 1,  checked |-> FALSE],
      Ipv4SrcField       |-> [kind |-> "ip4",  size |-> 4,  checked |-> FALSE],
      Ipv4DstField       |-> [kind |-> "ip4",  size |-> 4,  checked |-> FALSE],
      Ipv6SrcField       |-> [kind |-> "ip6",  size |-> 16, checked |-> FALSE],
      Ipv6FLabelField    |-> [kind |-> "uint", size |-> 4,  checked |-> TRUE],
      Ipv6DstField       |-> [kind |-> "ip6",  size |-> 16, checked |-> FALSE],
      IpEcnField         |-> [kind |-> "uint", size |-> 1,  checked |-> FALSE],
      IpProtoField       |-> [kind |-> "uint", size |-> 1,  checked |-> FALSE],
      IpDscpField        |-> [kind |-> "uint", size |-> 1,  checked |-> FALSE],
      PbbIsidField       |-> [kind |-> "uint", size |-> 4,  checked |-> TRUE],
      TunnelIdField      |-> [kind |-> "uint", size |-> 8,  checked |-> FALSE],
      MetadataField      |-> [kind |-> "uint", size |-> 8,  checked |-> FALSE],
      PortField          |-> [kind |-> "uint", size |-> 2,  checked |-> FALSE],
      Ipv6ExtHdrField    |-> [kind |-> "uint", size |-> 2,  checked |-> TRUE],
      TcpFlagsField      |-> [kind |-> "uint", size |-> 2,  checked |-> FALSE],
      ArpOperField       |-> [kind |-> "uint", size |-> 2,  checked |-> FALSE],
      TunnelIpv4SrcField |-> [kind |-> "ip4",  size |-> 4,  checked |-> FALSE],
      TunnelIpv4DstField |-> [kind |-> "ip4",  size |-> 4,  checked |-> FALSE],
      TtlField           |-> [kind |-> "uint", size |-> 1,  checked |-> TRUE],
      ArpXHaField        |-> [kind |-> "mac",  size |-> 6,  checked |-> TRUE],
      ArpXPaField        |-> [kind |-> "ip4",  size |-> 4,  checked |-> TRUE],
      ActsetOutputField  |-> [kind |-> "uint", size |-> 4,  checked |-> FALSE],
      IcmpTypeField      |-> [kind |-> "uint", size |-> 1,  checked |-> TRUE],
      IcmpCodeField      |-> [kind |-> "uint", size |-> 1,  checked |-> TRUE],
      PacketTypeField    |-> [kind |-> "uint", size |-> 4,  checked |-> FALSE] ]

\* the payload types whose code is in this package's match file
PayloadTypes == DOMAIN PayloadShape

\* A payload value: its Go type, and its content as a number (integer
\* shapes) or as the bytes of the address it holds.
Payload(type, num, bytes) == [type |-> type, num |-> num, bytes |-> bytes]

\* a nil util.Message
Nil == Payload("nil", 0, <<>>)

\* make([]byte, n)
Zeros(n) == [i \in 1..n |-> 0]

\* copy(dst, src): min(len(dst), len(src)) bytes go to the front of dst
Copy(dst, src) ==
    [i \in 1..Len(dst) |-> IF i <= Len(src) THEN src[i] ELSE dst[i]]

\* data[n:] for n <= len(data)
From(data, n) == SubSeq(data, n + 1, Len(data))

\* binary.BigEndian.PutUintNN into a slice of size bytes
RECURSIVE PutUint(_, _)
PutUint(v, size) ==
    IF size = 0 THEN <<>> ELSE PutUint(v \div 256, size - 1) \o <<v % 256>>

\* binary.BigEndian.UintNN of the whole of bytes
RECURSIVE Uint(_)
Uint(bytes) ==
    IF bytes = <<>> THEN 0
    ELSE Uint(SubSeq(bytes, 1, Len(bytes) - 1)) * 256 + bytes[Len(bytes)]

\* net.IPv4(a, b, c, d): the 16-byte form of an IPv4 address
IPv4(b) == <<0, 0, 0, 0, 0, 0, 0, 0, 0, 0, 255, 255>> \o SubSeq(b, 1, 4)

\* net.IP.To4(): the 4-byte form, or nil when ip is not an IPv4 address
To4(ip) ==
    IF Len(ip) = 4 THEN ip
    ELSE IF Len(ip) = 16 /\ SubSeq(ip, 1, 12) = SubSeq(IPv4(<<0, 0, 0, 0>>), 1, 12)
         THEN SubSeq(ip, 13, 16)
    ELSE <<>>

\* ByteArrayField.Len(): the Length attribute, the payload length of one
\* side
ByteArrayField_Len(p) == p.num

\* ByteArrayField.UnmarshalBinary(data) on a new(ByteArrayField) whose
\* Length is already set: the first Length bytes, or a short-buffer error
ByteArrayField_UnmarshalBinary(length, data) ==
    IF Len(data) < length
    THEN [status |-> "error", err |-> "short-buffer", val |-> Nil]
    ELSE [status |-> "ok", err |-> "",
          val |-> Payload("ByteArrayField", length, SubSeq(data, 1, length))]

\* Value.Len() of a payload
PayloadLen(p) ==
    IF p.type = "ByteArrayField" THEN ByteArrayField_Len(p)
    ELSE PayloadShape[p.type].size

\* Value.MarshalBinary() for a payload of the given shape
MarshalShape(shape, p) ==
    CASE shape.kind = "uint" -> PutUint(p.num, shape.size)
      [] shape.kind = "mac"  -> Copy(Zeros(shape.size), p.bytes)
      [] shape.kind = "ip4"  -> Copy(Zeros(shape.size), To4(p.bytes))
      [] shape.kind = "ip6"  -> Copy(Zeros(shape.size), p.bytes)

\* Value.MarshalBinary() of a payload
PayloadMarshal(p) == MarshalShape(PayloadShape[p.type], p)

\* what a payload's UnmarshalBinary returns
PayloadDecoded(status, val) ==
    [status |-> status, err |-> IF status = "ok" THEN "" ELSE "short-buffer",
     val |-> val]

\* Faulty variant: an address is copied into a buffer of its own size.
UnmarshalShapeAllocating(type, shape, data) ==
    CASE shape.kind = "uint" ->
           IF Len(data) < shape.size
           THEN PayloadDecoded(IF shape.checked THEN "error" ELSE "panic", Nil)
           ELSE PayloadDecoded("ok", Payload(type, Uint(SubSeq(data, 1, shape.size)),
                                             <<>>))
      [] shape.kind = "mac" ->
           IF Len(data) < shape.size /\ shape.checked
           THEN PayloadDecoded("error", Nil)
           ELSE PayloadDecoded("ok", Payload(type, 0, Copy(Zeros(shape.size), data)))
      [] shape.kind = "ip4" ->
           IF Len(data) < shape.size
           THEN PayloadDecoded(IF shape.checked THEN "error" ELSE "panic", Nil)
           ELSE PayloadDecoded("ok", Payload(type, 0, IPv4(data)))
      [] shape.kind = "ip6" ->
           PayloadDecoded("ok", Payload(type, 0, Copy(Zeros(shape.size), data)))

\* new(T).UnmarshalBinary(data) for a type T of the given shape: "ok" and
\* the value T holds afterwards; "error" when T tests len(data) and data
\* is short; "panic" when T reads past the end of data.  An address copied
\* into the nil slice of a new value leaves it empty.
UnmarshalShape(type, shape, data) ==
    CASE shape.kind = "uint" ->
           IF Len(data) < shape.size
           THEN PayloadDecoded(IF shape.checked THEN "error" ELSE "panic", Nil)
           ELSE PayloadDecoded("ok", Payload(type, Uint(SubSeq(data, 1, shape.size)),
                                             <<>>))
      [] shape.kind = "mac" ->
           IF Len(data) < shape.size /\ shape.checked
           THEN PayloadDecoded("error", Nil)
           ELSE PayloadDecoded("ok", Payload(type, 0, Copy(<<>>, data)))
      [] shape.kind = "ip4" ->
           IF Len(data) < shape.size
           THEN PayloadDecoded(IF shape.checked THEN "error" ELSE "panic", Nil)
           ELSE PayloadDecoded("ok", Payload(type, 0, IPv4(data)))
      [] shape.kind = "ip6" ->
           PayloadDecoded("ok", Payload(type, 0, Copy(Zeros(shape.size), data)))

\* new(T).UnmarshalBinary(data)
PayloadUnmarshal(type, data) == UnmarshalShape(type, PayloadShape[type], data)

(* ------------------------------------------------------------------ *)
(* One match field TLV: MatchField                                      *)
(* ------------------------------------------------------------------ *)
\* new(MatchField)
ZeroField ==
    [Class |-> 0, Field |-> 0, HasMask |-> FALSE, Length |-> 0,
     ExperimenterID |-> 0, Value |-> Nil, Mask |-> Nil]

\* MatchField.Len() calls Len() on a nil Value, or on a nil Mask when
\* HasMask is set: a nil-pointer panic
MatchField_LenPanics(f) == f.Value = Nil \/ (f.HasMask /\ f.Mask = Nil)

\* MatchField.Len() (uint16), where it returns
MatchField_Len(f) ==
    (4 + (IF f.ExperimenterID # 0 THEN 4 ELSE 0) + PayloadLen(f.Value)
       + (IF f.HasMask THEN PayloadLen(f.Mask) ELSE 0)) % 65536

\* the byte (m.Field << 1) | has_mask (uint8)
PackedField(f) == ((f.Field * 2) % 256) + (IF f.HasMask THEN 1 ELSE 0)

\* MatchField.MarshalBinary(): status "ok" and the bytes, or "panic"
MatchField_MarshalBinary(f) ==
    IF MatchField_LenPanics(f) THEN [status |-> "panic", data |-> <<>>]
    ELSE [status |-> "ok",
          data |-> PutUint(f.Class, 2) \o <<PackedField(f), f.Length>>
                     \o Copy(Zeros(MatchField_Len(f) - 4),
                             PayloadMarshal(f.Value)
                               \o (IF f.HasMask THEN PayloadMarshal(f.Mask)
                                   ELSE <<>>))]

\* The payload type DecodeMatchField selects for (class, field).
DecoderFor(class, field) ==
    CASE class = OXM_CLASS_OPENFLOW_BASIC -> DecoderBasic(field)
      [] class = OXM_CLASS_NXM_1          -> DecoderNxm1(field)
      [] class = OXM_CLASS_PACKET_REGS    -> DecoderPacketRegs(field)
      [] class = OXM_CLASS_EXPERIMENTER   -> DecoderExperimenter(field)
      [] OTHER                            -> "unsupported"

\* if !hasMask { msg.Length = length } else { msg.Length = length / 2 }
ByteArrayLength(length, hasMask) ==
    IF ~hasMask THEN length ELSE length \div 2

\* what DecodeMatchField returns once the payload type is known
DecodeAs(type, length, hasMask, data) ==
    IF type \in {"unhandled", "unsupported"}
    THEN [status |-> "error", err |-> "unknown-oxm-field", val |-> Nil]
    ELSE IF type = "nil"
    THEN [status |-> "panic", err |-> "nil-dereference", val |-> Nil]
    ELSE IF type = "ByteArrayField"
    THEN ByteArrayField_UnmarshalBinary(ByteArrayLength(length, hasMask), data)
    ELSE IF type \notin PayloadTypes
    THEN [status |-> "foreign", err |-> type, val |-> Nil]
    ELSE PayloadUnmarshal(type, data)

\* DecodeMatchField(class, field, length, hasMask, data): "ok" and the
\* value, "error" and no value, or "panic" (val.UnmarshalBinary on the nil
\* val an empty case leaves, or a read past the end of data).
DecodeMatchField(class, field, length, hasMask, data) ==
    DecodeAs(DecoderFor(class, field), length, hasMask, data)

\* what MatchField.UnmarshalBinary leaves: the outcome, the field, and n,
\* the cursor
FieldDecoded(status, err, f, n) ==
    [status |-> status, err |-> err, f |-> f, n |-> n]

\* m.Mask, err = DecodeMatchField(...); n += m.Mask.Len()
DecodeMask(f, n, k) ==
    IF k.status # "ok" THEN FieldDecoded(k.status, k.err, f, n)
    ELSE FieldDecoded("ok", "", [f EXCEPT !.Mask = k.val], n + PayloadLen(k.val))

\* if m.HasMask { ... data[n:] ... }
DecodeMaskIfAny(f, n, data) ==
    IF ~f.HasMask THEN FieldDecoded("ok", "", f, n)
    ELSE IF n > Len(data) THEN FieldDecoded("panic", "slice", f, n)
    ELSE DecodeMask(f, n, DecodeMatchField(f.Class, f.Field, f.Length, f.HasMask,
                                           From(data, n)))

\* m.Value, err = DecodeMatchField(...); n += m.Value.Len()
DecodeValue(f, n, v, data) ==
    IF v.status # "ok" THEN FieldDecoded(v.status, v.err, f, n)
    ELSE DecodeMaskIfAny([f EXCEPT !.Value = v.val], n + PayloadLen(v.val), data)

\* the value and the mask, read at cursor n
DecodePayloads(f, n, data) ==
    DecodeValue(f, n, DecodeMatchField(f.Class, f.Field, f.Length, f.HasMask,
                                       From(data, n)), data)

\* class, field, has_mask and length of the 4-byte TLV header
TlvHeaderOf(data) ==
    [Class |-> Uint(SubSeq(data, 1, 2)), HasMask |-> data[3] % 2 = 1,
     Field |-> data[3] \div 2, Length |-> data[4]]

\* Faulty variant: any experimenter id is taken.
AnyExperimenterAccepted(experimenterID) == TRUE

\* if experimenterID == ONF_EXPERIMENTER_ID
ExperimenterAccepted(experimenterID) == experimenterID = ONF_EXPERIMENTER_ID

\* if m.Class == OXM_CLASS_EXPERIMENTER { ... }, then the payloads
DecodeAfterHeader(f, data) ==
    IF f.Class # OXM_CLASS_EXPERIMENTER THEN DecodePayloads(f, 4, data)
    ELSE IF Len(data) < 8 THEN FieldDecoded("panic", "index", f, 4)
    ELSE IF ~ExperimenterAccepted(Uint(SubSeq(data, 5, 8)))
         THEN FieldDecoded("error", "unsupported-experimenter", f, 4)
    ELSE DecodePayloads([f EXCEPT !.ExperimenterID = Uint(SubSeq(data, 5, 8))],
                        8, data)

\* MatchField.UnmarshalBinary(data) on a new(MatchField)
MatchField_UnmarshalBinary(data) ==
    IF Len(data) < 4 THEN FieldDecoded("panic", "index", ZeroField, 0)
    ELSE DecodeAfterHeader(TlvHeaderOf(data) @@ ZeroField, data)

(* ------------------------------------------------------------------ *)
(* The OXM TLV header alone: OxmId                                      *)
(* ------------------------------------------------------------------ *)
\* new(OxmId)
ZeroOxmId ==
    [Class |-> 0, Field |-> 0, HasMask |-> FALSE, Length |-> 0,
     ExperimenterID |-> 0]

\* the experimenter id of an OXM id, read after the header
OxmIdAfterHeader(o, data) ==
    IF o.Class # OXM_CLASS_EXPERIMENTER THEN FieldDecoded("ok", "", o, 4)
    ELSE IF Len(data) < 8 THEN FieldDecoded("panic", "index", o, 4)
    ELSE IF ~ExperimenterAccepted(Uint(SubSeq(data, 5, 8)))
         THEN FieldDecoded("error", "unsupported-experimenter", o, 4)
    ELSE FieldDecoded("ok", "",
                      [o EXCEPT !.ExperimenterID = Uint(SubSeq(data, 5, 8))], 8)

\* OxmId.UnmarshalBinary(data) on a new(OxmId)
OxmId_UnmarshalBinary(data) ==
    IF Len(data) < 4 THEN FieldDecoded("panic", "index", ZeroOxmId, 0)
    ELSE OxmIdAfterHeader(TlvHeaderOf(data) @@ ZeroOxmId, data)

(* ------------------------------------------------------------------ *)
(* The match block: Match                                               *)
(* ------------------------------------------------------------------ *)
\* new(Match)
ZeroMatch == [Type |-> 0, Length |-> 0, Fields |-> <<>>]

\* NewMatch()
NewMatch == [Type |-> MatchType_OXM, Length |-> 4, Fields |-> <<>>]

\* the sum of a.Len() over fields[lo..hi] (uint16); the loop's running sum
\* is taken in halves, addition modulo 2^16 being associative
RECURSIVE SumFieldLen(_, _, _)
SumFieldLen(fields, lo, hi) ==
    IF lo > hi THEN 0
    ELSE IF lo = hi THEN MatchField_Len(fields[lo])
    ELSE (SumFieldLen(fields, lo, (lo + hi) \div 2)
            + SumFieldLen(fields, (lo + hi) \div 2 + 1, hi)) % 65536

\* Match.Len() panics when a field's Len() does
Match_LenPanics(m) ==
    \E i \in DOMAIN m.Fields : MatchField_LenPanics(m.Fields[i])

\* n = ((n + 7) / 8) * 8 in uint16
RoundUp8(n) == ((((n + 7) % 65536) \div 8) * 8) % 65536

\* Match.Len()
Match_Len(m) == RoundUp8((4 + SumFieldLen(m.Fields, 1, Len(m.Fields))) % 65536)

\* Match.AddField(f): status and the match afterwards
Match_AddField(m, f) ==
    IF MatchField_LenPanics(f)
    THEN [status |-> "panic", m |-> [m EXCEPT !.Fields = Append(@, f)]]
    ELSE [status |-> "ok",
          m |-> [m EXCEPT !.Fields = Append(@, f),
                          !.Length = (@ + MatchField_Len(f)) % 65536]]

\* copy(data[n:], b) for n <= len(data)
CopyAt(data, n, b) ==
    [i \in 1..Len(data) |->
        IF i > n /\ i <= n + Len(b) THEN b[i - n] ELSE data[i]]

\* the loop over m.Fields from field k on, n being the cursor: data[n:]
\* panics once n is beyond len(data)
RECURSIVE CopyFields(_, _, _, _)
CopyFields(data, n, fields, k) ==
    IF k > Len(fields) THEN [status |-> "ok", data |-> data]
    ELSE IF n > Len(data) THEN [status |-> "panic", data |-> <<>>]
    ELSE CopyFields(CopyAt(data, n, MatchField_MarshalBinary(fields[k]).data),
                    n + MatchField_Len(fields[k]), fields, k + 1)

\* Match.MarshalBinary(): data has m.Len() bytes; type and length need
\* four of them
Match_MarshalBinary(m) ==
    IF Match_LenPanics(m) \/ Match_Len(m) < 4
    THEN [status |-> "panic", data |-> <<>>]
    ELSE CopyFields(Copy(Zeros(Match_Len(m)),
                         PutUint(m.Type, 2) \o PutUint(m.Length, 2)),
                    4, m.Fields, 1)

\* the loop of Match.UnmarshalBinary: fields are decoded at cursor n while
\* n < m.Length and appended to fields
RECURSIVE UnmarshalFields(_, _, _, _)
\* one pass of the loop, r being what field.UnmarshalBinary(data[n:]) left
UnmarshalNext(data, n, length, fields, r) ==
    IF r.status # "ok"
    THEN [status |-> r.status, err |-> r.err, Fields |-> fields, n |-> n]
    ELSE UnmarshalFields(data, n + MatchField_Len(r.f), length,
                         Append(fields, r.f))

UnmarshalFields(data, n, length, fields) ==
    IF n >= length THEN [status |-> "ok", err |-> "", Fields |-> fields, n |-> n]
    ELSE IF n > Len(data)
    THEN [status |-> "panic", err |-> "slice", Fields |-> fields, n |-> n]
    ELSE UnmarshalNext(data, n, length, fields,
                       MatchField_UnmarshalBinary(From(data, n)))

\* m after the loop
MatchDecoded(type, length, r) ==
    [status |-> r.status, err |-> r.err,
     m |-> [Type |-> type, Length |-> length, Fields |-> r.Fields]]

\* m.UnmarshalBinary(data): the outcome and m afterwards
Match_UnmarshalBinary(m, data) ==
    IF Len(data) < 4 THEN [status |-> "panic", err |-> "index", m |-> m]
    ELSE MatchDecoded(Uint(SubSeq(data, 1, 2)), Uint(SubSeq(data, 3, 4)),
                      UnmarshalFields(data, 4, Uint(SubSeq(data, 3, 4)), m.Fields))

(* ------------------------------------------------------------------ *)
(* The match builders                                                   *)
(* ------------------------------------------------------------------ *)
\* Faulty variant: the number passed to the builder is not stored.
ValUnset(type, x) ==
    IF PayloadShape[type].kind = "uint" THEN Payload(type, 0, <<>>)
    ELSE Payload(type, 0, x)

\* A payload of the given type holding x: a number for the integer
\* shapes, the address bytes for the others.
Val(type, x) ==
    IF PayloadShape[type].kind = "uint" THEN Payload(type, x, <<>>)
    ELSE Payload(type, 0, x)

\* v | bit, for a single bit
BitOr(v, bit) == IF (v \div bit) % 2 = 1 THEN v ELSE v + bit

\* What every builder does: class, field and the initial HasMask are set,
\* the value is stored with Length = Value.Len(); a non-nil mask (<<x>>,
\* nil being <<>>) is stored, sets HasMask and is added to Length (uint8).
MkField(class, field, hasMask, type, x, maskPtr) ==
    [Class |-> class, Field |-> field,
     HasMask |-> hasMask \/ maskPtr # <<>>,
     Length |-> (PayloadShape[type].size
                   + IF maskPtr # <<>> THEN PayloadShape[type].size ELSE 0) % 256,
     ExperimenterID |-> 0,
     Value |-> Val(type, x),
     Mask |-> IF maskPtr # <<>> THEN Val(type, maskPtr[1]) ELSE Nil]

\* The builders, one entry per NewXxxField: the class and field it sets,
\* the HasMask it starts with, the payload type it stores, whether it takes
\* a mask pointer, and what it stores as the value: its argument ("arg"),
\* vlanId | OFPVID_PRESENT ("vid"), namespace << 16 | nsType ("ns"), or
\* nothing, the argument being ignored ("zero").
Builders ==
    [ NewInPortField |->
        [class |-> OXM_CLASS_OPENFLOW_BASIC, field |-> OXM_FIELD_IN_PORT,
         hasMask |-> FALSE, type |-> "InPortField", masked |-> FALSE, value |-> "arg"],
      NewInPhyPortField |->
        [class |-> OXM_CLASS_OPENFLOW_BASIC, field |-> OXM_FIELD_IN_PHY_PORT,
         hasMask |-> FALSE, type |-> "InPhyPortField", masked |-> FALSE, value |-> "arg"],
      NewEthDstField |->
        [class |-> OXM_CLASS_OPENFLOW_BASIC, field |-> OXM_FIELD_ETH_DST,
         hasMask |-> FALSE, type |-> "EthDstField", masked |-> TRUE, value |-> "arg"],
      NewEthSrcField |->
        [class |-> OXM_CLASS_OPENFLOW_BASIC, field |-> OXM_FIELD_ETH_SRC,
         hasMask |-> FALSE, type |-> "EthSrcField", masked |-> TRUE, value |-> "arg"],
      NewEthTypeField |->
        [class |-> OXM_CLASS_OPENFLOW_BASIC, field |-> OXM_FIELD_ETH_TYPE,
         hasMask |-> FALSE, type |-> "EthTypeField", masked |-> FALSE, value |-> "arg"],
      NewVlanIdField |->
        [class |-> OXM_CLASS_OPENFLOW_BASIC, field |-> OXM_FIELD_VLAN_VID,
         hasMask |-> FALSE, type |-> "VlanIdField", masked |-> TRUE, value |-> "vid"],
      NewVlanPcpField |->
        [class |-> OXM_CLASS_OPENFLOW_BASIC, field |-> OXM_FIELD_VLAN_PCP,
         hasMask |-> FALSE, type |-> "VlanPcpField", masked |-> FALSE, value |-> "arg"],
      NewMplsLabelField |->
        [class |-> OXM_CLASS_OPENFLOW_BASIC, field |-> OXM_FIELD_MPLS_LABEL,
         hasMask |-> FALSE, type |-> "MplsLabelField", masked |-> FALSE, value |-> "arg"],
      NewMplsTcField |->
        [class |-> OXM_CLASS_OPENFLOW_BASIC, field |-> OXM_FIELD_MPLS_TC,
         hasMask |-> FALSE, type |-> "MplsTcField", masked |-> FALSE, value |-> "arg"],
      NewMplsBosField |->
        [class |-> OXM_CLASS_OPENFLOW_BASIC, field |-> OXM_FIELD_MPLS_BOS,
         hasMask |-> FALSE, type |-> "MplsBosField", masked |-> FALSE, value |-> "arg"],
      NewIpv4SrcField |->
        [class |-> OXM_CLASS_OPENFLOW_BASIC, field |-> OXM_FIELD_IPV4_SRC,
         hasMask |-> FALSE, type |-> "Ipv4SrcField", masked |-> TRUE, value |-> "arg"],
      NewIpv4DstField |->
        [class |-> OXM_CLASS_OPENFLOW_BASIC, field |-> OXM_FIELD_IPV4_DST,
         hasMask |-> FALSE, type |-> "Ipv4DstField", masked |-> TRUE, value |-> "arg"],
      NewIpv6SrcField |->
        [class |-> OXM_CLASS_OPENFLOW_BASIC, field |-> OXM_FIELD_IPV6_SRC,
         hasMask |-> FALSE, type |-> "Ipv6SrcField", masked |-> TRUE, value |-> "arg"],
      NewIpv6FLabelField |->
        [class |-> OXM_CLASS_OPENFLOW_BASIC, field |-> OXM_FIELD_IPV6_FLABEL,
         hasMask |-> TRUE, type |-> "Ipv6FLabelField", masked |-> TRUE, value |-> "arg"],
      NewIpv6DstField |->
        [class |-> OXM_CLASS_OPENFLOW_BASIC, field |-> OXM_FIELD_IPV6_DST,
         hasMask |-> FALSE, type |-> "Ipv6DstField", masked |-> TRUE, value |-> "arg"],
      NewIpEcnField |->
        [class |-> OXM_CLASS_OPENFLOW_BASIC, field |-> OXM_FIELD_IP_ECN,
         hasMask |-> FALSE, type |-> "IpEcnField", masked |-> FALSE, value |-> "zero"],
      NewIpProtoField |->
        [class |-> OXM_CLASS_OPENFLOW_BASIC, field |-> OXM_FIELD_IP_PROTO,
         hasMask |-> FALSE, type |-> "IpProtoField", masked |-> FALSE, value |-> "arg"],
      NewIpDscpField |->
        [class |-> OXM_CLASS_OPENFLOW_BASIC, field |-> OXM_FIELD_IP_DSCP,
         hasMask |-> FALSE, type |-> "IpDscpField", masked |-> TRUE, value |-> "arg"],
      NewPbbIsidField |->
        [class |-> OXM_CLASS_OPENFLOW_BASIC, field |-> OXM_FIELD_PBB_ISID,
         hasMask |-> TRUE, type |-> "PbbIsidField", masked |-> TRUE, value |-> "arg"],
      NewTunnelIdField |->
        [class |-> OXM_CLASS_OPENFLOW_BASIC, field |-> OXM_FIELD_TUNNEL_ID,
         hasMask |-> FALSE, type |-> "TunnelIdField", masked |-> FALSE, value |-> "arg"],
      NewMetadataField |->
        [class |-> OXM_CLASS_OPENFLOW_BASIC, field |-> OXM_FIELD_METADATA,
         hasMask |-> FALSE, type |-> "MetadataField", masked |-> TRUE, value |-> "arg"],
      NewTcpSrcField |->
        [class |-> OXM_CLASS_OPENFLOW_BASIC, field |-> OXM_FIELD_TCP_SRC,
         hasMask |-> FALSE, type |-> "PortField", masked |-> FALSE, value |-> "arg"],
      NewTcpDstField |->
        [class |-> OXM_CLASS_OPENFLOW_BASIC, field |-> OXM_FIELD_TCP_DST,
         hasMask |-> FALSE, type |-> "PortField", masked |-> FALSE, value |-> "arg"],
      NewUdpSrcField |->
        [class |-> OXM_CLASS_OPENFLOW_BASIC, field |-> OXM_FIELD_UDP_SRC,
         hasMask |-> FALSE, type |-> "PortField", masked |-> FALSE, value |-> "arg"],
      NewUdpDstField |->
        [class |-> OXM_CLASS_OPENFLOW_BASIC, field |-> OXM_FIELD_UDP_DST,
         hasMask |-> FALSE, type |-> "PortField", masked |-> FALSE, value |-> "arg"],
      NewIpv6ExtHdrField |->
        [class |-> OXM_CLASS_OPENFLOW_BASIC, field |-> OXM_FIELD_IPV6_EXTHDR,
         hasMask |-> TRUE, type |-> "Ipv6ExtHdrField", masked |-> TRUE, value |-> "arg"],
      NewTcpFlagsField |->
        [class |-> OXM_CLASS_OPENFLOW_BASIC, field |-> OXM_FIELD_TCP_FLAGS,
         hasMask |-> FALSE, type |-> "TcpFlagsField", masked |-> TRUE, value |-> "arg"],
      NewArpOperField |->
        [class |-> OXM_CLASS_OPENFLOW_BASIC, field |-> OXM_FIELD_ARP_OP,
         hasMask |-> FALSE, type |-> "ArpOperField", masked |-> FALSE, value |-> "arg"],
      NewTunnelIpv4SrcField |->
        [class |-> OXM_CLASS_NXM_1, field |-> NXM_NX_TUN_IPV4_SRC,
         hasMask |-> FALSE, type |-> "TunnelIpv4SrcField", masked |-> TRUE, value |-> "arg"],
      NewTunnelIpv4DstField |->
        [class |-> OXM_CLASS_NXM_1, field |-> NXM_NX_TUN_IPV4_DST,
         hasMask |-> FALSE, type |-> "TunnelIpv4DstField", masked |-> TRUE, value |-> "arg"],
      NewTunnelIpv6SrcField |->
        [class |-> OXM_CLASS_NXM_1, field |-> NXM_NX_TUN_IPV6_SRC,
         hasMask |-> FALSE, type |-> "Ipv6SrcField", masked |-> TRUE, value |-> "arg"],
      NewTunnelIpv6DstField |->
        [class |-> OXM_CLASS_NXM_1, field |-> NXM_NX_TUN_IPV6_DST,
         hasMask |-> FALSE, type |-> "Ipv6DstField", masked |-> TRUE, value |-> "arg"],
      NewIPTtlField |->
        [class |-> OXM_CLASS_NXM_1, field |-> NXM_NX_IP_TTL,
         hasMask |-> FALSE, type |-> "TtlField", masked |-> FALSE, value |-> "arg"],
      NewSctpDstField |->
        [class |-> OXM_CLASS_OPENFLOW_BASIC, field |-> OXM_FIELD_SCTP_DST,
         hasMask |-> FALSE, type |-> "PortField", masked |-> FALSE, value |-> "arg"],
      NewSctpSrcField |->
        [class |-> OXM_CLASS_OPENFLOW_BASIC, field |-> OXM_FIELD_SCTP_SRC,
         hasMask |-> FALSE, type |-> "PortField", masked |-> FALSE, value |-> "arg"],
      NewArpThaField |->
        [class |-> OXM_CLASS_OPENFLOW_BASIC, field |-> OXM_FIELD_ARP_THA,
         hasMask |-> FALSE, type |-> "ArpXHaField", masked |-> FALSE, value |-> "arg"],
      NewArpShaField |->
        [class |-> OXM_CLASS_OPENFLOW_BASIC, field |-> OXM_FIELD_ARP_SHA,
         hasMask |-> FALSE, type |-> "ArpXHaField", masked |-> FALSE, value |-> "arg"],
      NewArpTpaField |->
        [class |-> OXM_CLASS_OPENFLOW_BASIC, field |-> OXM_FIELD_ARP_TPA,
         hasMask |-> FALSE, type |-> "ArpXPaField", masked |-> FALSE, value |-> "arg"],
      NewArpSpaField |->
        [class |-> OXM_CLASS_OPENFLOW_BASIC, field |-> OXM_FIELD_ARP_SPA,
         hasMask |-> FALSE, type |-> "ArpXPaField", masked |-> FALSE, value |-> "arg"],
      NewActsetOutputField |->
        [class |-> OXM_CLASS_OPENFLOW_BASIC, field |-> OXM_FIELD_ACTSET_OUTPUT,
         hasMask |-> FALSE, type |-> "ActsetOutputField", masked |-> FALSE, value |-> "arg"],
      NewPacketTypeField |->
        [class |-> OXM_CLASS_OPENFLOW_BASIC, field |-> OXM_FIELD_PACKET_TYPE,
         hasMask |-> FALSE, type |-> "PacketTypeField", masked |-> FALSE, value |-> "ns"] ]

\* the value a builder stores, given its argument
\* Faulty variant: the vlan id is stored as given.
StoredWithoutPresent(how, x) ==
    CASE how = "arg"  -> x
      [] how = "vid"  -> x
      [] how = "ns"   -> x[1] * 65536 + x[2]
      [] how = "zero" -> 0

StoredValue(how, x) ==
    CASE how = "arg"  -> x
      [] how = "vid"  -> BitOr(x, OFPVID_PRESENT)
      [] how = "ns"   -> x[1] * 65536 + x[2]
      [] how = "zero" -> 0

\* the field the builder b returns
BuildWith(b, x, maskPtr) ==
    MkField(b.class, b.field, b.hasMask, b.type, StoredValue(b.value, x),
            IF b.masked THEN maskPtr ELSE <<>>)

\* NewXxxField(x) or NewXxxField(x, maskPtr), by the builder's name
Build(name, x, maskPtr) == BuildWith(Builders[name], x, maskPtr)

(* ------------------------------------------------------------------ *)
(* The inputs the codec is run on                                       *)
(* ------------------------------------------------------------------ *)
\* argument values per payload shape, and the optional mask (<<>> is nil)
Args ==
    [uint |-> {3, 100},
     mac  |-> {<<1, 2, 3, 4, 5, 6>>},
     ip4  |-> {<<10, 0, 0, 1>>, IPv4(<<10, 0, 0, 1>>)},
     ip6  |-> {<<32, 1, 13, 184, 0, 0, 0, 0, 0, 0, 0, 0, 0, 0, 0, 1>>}]
Masks ==
    [uint |-> {<<>>, <<15>>},
     mac  |-> {<<>>, <<(<<255, 255, 255, 0, 0, 0>>)>>},
     ip4  |-> {<<>>, <<(<<255, 255, 255, 0>>)>>},
     ip6  |-> {<<>>, <<(<<255, 255, 255, 255, 255, 255, 255, 255,
                         0, 0, 0, 0, 0, 0, 0, 0>>)>>}]

\* vlan ids (uint16), with and without the bit 0x1000 already set, and
\* the vlan masks
VlanIds == {0, 3, 100, 4095, 4196, 65535}
VlanMasks == {<<>>, <<15>>, <<4095>>, <<8191>>, <<65535>>}

\* the arguments and the mask pointers a builder is called with
ArgsOf(b) ==
    IF b.value = "ns" THEN {<<ns, t>> : ns \in {0, 1}, t \in Args.uint}
    ELSE IF b.value = "vid" THEN VlanIds
    ELSE Args[PayloadShape[b.type].kind]
MasksOf(b) ==
    IF ~b.masked THEN {<<>>}
    ELSE IF b.value = "vid" THEN VlanMasks
    ELSE Masks[PayloadShape[b.type].kind]

\* every field a builder returns for these arguments
BuiltFields ==
    UNION { { BuildWith(Builders[name], x, k) :
                x \in ArgsOf(Builders[name]), k \in MasksOf(Builders[name]) } :
            name \in DOMAIN Builders }

\* Fields set up field by field, as a caller outside the builders does:
\* TCP_FLAGS in the ONF experimenter class, unmasked and masked.
LiteralFields ==
    { [Class |-> OXM_CLASS_EXPERIMENTER, Field |-> OXM_FIELD_TCP_FLAGS,
       HasMask |-> k # <<>>,
       Length |-> 4 + 2 + (IF k # <<>> THEN 2 ELSE 0),
       ExperimenterID |-> ONF_EXPERIMENTER_ID,
       Value |-> Val("TcpFlagsField", 18),
       Mask |-> IF k # <<>> THEN Val("TcpFlagsField", k[1]) ELSE Nil]
        : k \in Masks.uint }

\* an OXM TLV header as it appears on the wire
TlvHeader(class, field, hasMask, length) ==
    PutUint(class, 2) \o <<((field * 2) % 256) + (IF hasMask THEN 1 ELSE 0), length>>

\* TLVs as a peer may send them: known fields, fields without a decoder,
\* unsupported classes, experimenter TLVs with the ONF id and with others
ReceivedTlvs ==
    { TlvHeader(OXM_CLASS_OPENFLOW_BASIC, OXM_FIELD_IN_PORT, FALSE, 4)
          \o PutUint(3, 4),
      TlvHeader(OXM_CLASS_OPENFLOW_BASIC, OXM_FIELD_ETH_DST, TRUE, 12)
          \o <<1, 2, 3, 4, 5, 6, 255, 255, 255, 0, 0, 0>>,
      TlvHeader(OXM_CLASS_OPENFLOW_BASIC, OXM_FIELD_PBB_UCA, FALSE, 1) \o <<1>>,
      TlvHeader(OXM_CLASS_OPENFLOW_BASIC, OXM_FIELD_PACKET_TYPE, FALSE, 4)
          \o PutUint(1, 4),
      TlvHeader(OXM_CLASS_OPENFLOW_BASIC, 45, FALSE, 4) \o PutUint(1, 4),
      TlvHeader(OXM_CLASS_NXM_0, 0, FALSE, 4) \o PutUint(1, 4),
      TlvHeader(2, 0, FALSE, 4) \o PutUint(1, 4),
      TlvHeader(OXM_CLASS_NXM_1, NXM_NX_IP_TTL, FALSE, 1) \o <<64>>,
      TlvHeader(OXM_CLASS_NXM_1, NXM_NX_TUN_ID, FALSE, 8) \o PutUint(7, 8),
      TlvHeader(OXM_CLASS_NXM_1, NXM_NX_TCP_FLAGS, TRUE, 4) \o <<0, 18, 0, 255>>,
      TlvHeader(OXM_CLASS_NXM_1, 48, FALSE, 4) \o PutUint(1, 4),
      TlvHeader(OXM_CLASS_PACKET_REGS, 8, FALSE, 8) \o PutUint(1, 8),
      TlvHeader(OXM_CLASS_EXPERIMENTER, OXM_FIELD_TCP_FLAGS, FALSE, 6)
          \o PutUint(ONF_EXPERIMENTER_ID, 4) \o <<0, 18>>,
      TlvHeader(OXM_CLASS_EXPERIMENTER, OXM_FIELD_TCP_FLAGS, TRUE, 8)
          \o PutUint(ONF_EXPERIMENTER_ID, 4) \o <<0, 18, 0, 255>>,
      TlvHeader(OXM_CLASS_EXPERIMENTER, OXM_FIELD_IN_PORT, FALSE, 8)
          \o PutUint(ONF_EXPERIMENTER_ID, 4) \o PutUint(3, 4),
      TlvHeader(OXM_CLASS_EXPERIMENTER, OXM_FIELD_TCP_FLAGS, FALSE, 6)
          \o <<0, 0, 35, 32>> \o <<0, 18>>,
      TlvHeader(OXM_CLASS_EXPERIMENTER, OXM_FIELD_TCP_FLAGS, FALSE, 6)
          \o <<0, 0, 0, 0>> \o <<0, 18>>,
      TlvHeader(OXM_CLASS_EXPERIMENTER, OXM_FIELD_TCP_FLAGS, TRUE, 8)
          \o <<79, 78, 70, 1>> \o <<0, 18, 0, 255>> }

\* the fields DecodeMatchField reads as a ByteArrayField, one of each
\* family
ByteArrayFields ==
    { [class |-> OXM_CLASS_NXM_1, field |-> NXM_NX_TUN_METADATA0],
      [class |-> OXM_CLASS_NXM_1, field |-> NXM_NX_XXREG0],
      [class |-> OXM_CLASS_PACKET_REGS, field |-> OXM_PACKET_REG0] }

\* header lengths of the byte-array TLVs received: even and odd, the
\* smallest and the largest a header holds
ByteArrayLengths == {0, 1, 4, 5, 8, 16, 254, 255}

\* byte-array TLVs as a peer may send them, each followed by as many
\* payload bytes as its header announces
ByteArrayTlvs ==
    { TlvHeader(c.class, c.field, k, l) \o [i \in 1..l |-> i % 256] :
        c \in ByteArrayFields, k \in BOOLEAN, l \in ByteArrayLengths }

\* a match block as a peer may send it: type, inner length, the TLVs, and
\* zero padding to a multiple of 8
WireMatch(tlvs) ==
    LET body == IF Len(tlvs) = 0 THEN <<>>
                ELSE IF Len(tlvs) = 1 THEN tlvs[1]
                ELSE tlvs[1] \o tlvs[2]
        inner == 4 + Len(body)
    IN PutUint(MatchType_OXM, 2) \o PutUint(inner, 2)
         \o Copy(Zeros(RoundUp8(inner) - 4), body)

\* match blocks of one or two received TLVs
ReceivedMatches ==
    { WireMatch(<<a>>) : a \in ReceivedTlvs }
      \cup { WireMatch(<<a, b>>) : a, b \in ReceivedTlvs }

\* well-formed TLVs of fields that have a decoder: IN_PORT, masked ETH_DST,
\* ARP_SHA, IP_TTL of NXM_1, masked byte-array register, TCP_FLAGS of the
\* ONF experimenter
WholeTlvs ==
    { TlvHeader(OXM_CLASS_OPENFLOW_BASIC, OXM_FIELD_IN_PORT, FALSE, 4)
          \o PutUint(3, 4),
      TlvHeader(OXM_CLASS_OPENFLOW_BASIC, OXM_FIELD_ETH_DST, TRUE, 12)
          \o <<1, 2, 3, 4, 5, 6, 255, 255, 255, 0, 0, 0>>,
      TlvHeader(OXM_CLASS_OPENFLOW_BASIC, OXM_FIELD_ARP_SHA, FALSE, 6)
          \o <<1, 2, 3, 4, 5, 6>>,
      TlvHeader(OXM_CLASS_NXM_1, NXM_NX_IP_TTL, FALSE, 1) \o <<64>>,
      TlvHeader(OXM_CLASS_PACKET_REGS, OXM_PACKET_REG0, TRUE, 8)
          \o <<0, 0, 0, 7, 255, 255, 255, 255>>,
      TlvHeader(OXM_CLASS_EXPERIMENTER, OXM_FIELD_TCP_FLAGS, FALSE, 6)
          \o PutUint(ONF_EXPERIMENTER_ID, 4) \o <<0, 18>> }

\* the proper prefixes of b: a buffer cut short
Prefixes(b) == { SubSeq(b, 1, n) : n \in 0..(Len(b) - 1) }

\* TLVs cut short: fewer bytes than the header and the payload need
ShortTlvs == UNION { Prefixes(b) : b \in WholeTlvs }

\* the bytes of a match block that its inner length covers
InnerBytes(b) == SubSeq(b, 1, Uint(SubSeq(b, 3, 4)))

\* match blocks cut short: fewer bytes than the inner length announces
ShortMatches == UNION { Prefixes(InnerBytes(WireMatch(<<a>>))) : a \in WholeTlvs }

\* the MAC-shaped fields of both classes, with the mask or without: ETH_DST,
\* ETH_SRC, ARP_SHA, ARP_THA, ND_SLL, ND_TLL
MacFields ==
    ({OXM_CLASS_OPENFLOW_BASIC}
        \X {OXM_FIELD_ETH_DST, OXM_FIELD_ETH_SRC, OXM_FIELD_ARP_SHA,
            OXM_FIELD_ARP_THA, OXM_FIELD_IPV6_ND_SLL, OXM_FIELD_IPV6_ND_TLL})
      \cup ({OXM_CLASS_NXM_1}
        \X {NXM_NX_ARP_SHA, NXM_NX_ARP_THA, NXM_NX_ND_SLL, NXM_NX_ND_TLL})
MacTlvs ==
    { TlvHeader(cf[1], cf[2], FALSE, 6) \o <<1, 2, 3, 4, 5, 6>> : cf \in MacFields }
      \cup { TlvHeader(cf[1], cf[2], TRUE, 12)
               \o <<1, 2, 3, 4, 5, 6, 255, 255, 255, 0, 0, 0>> : cf \in MacFields }

\* the blocks a Match is decoded from a second time: empty, or one
\* well-formed TLV
AgainMatches == {WireMatch(<<>>)} \cup { WireMatch(<<a>>) : a \in WholeTlvs }

\* match blocks whose inner length ends inside their only field: an
\* IN_PORT TLV of 8 bytes behind an inner length of 5, 8 or 11, padded to
\* 16 bytes
OverrunMatches ==
    { PutUint(MatchType_OXM, 2) \o PutUint(inner, 2)
        \o TlvHeader(OXM_CLASS_OPENFLOW_BASIC, OXM_FIELD_IN_PORT, FALSE, 4)
        \o PutUint(3, 4) \o Zeros(4) : inner \in {5, 8, 11} }

(* ------------------------------------------------------------------ *)
(* State                                                                *)
(* ------------------------------------------------------------------ *)
VARIABLES
    wire,          \* the byte stream the peer sends (sequence of segment names)
    fine,          \* whether the transport returns short reads
    rcvd,          \* bytes read from the transport and written to buf
    off,           \* bytes cut off the front of buf
    totalLen,      \* inbound(): totalLen
    marked,        \* buf[8:12] currently holds the oversize vendor id
    hdrSeen,       \* buf.Len() when totalLen was last decoded, up to 20
    readerPc,      \* where inbound() is
    readerErr,     \* inbound(): err about to be published
    msgBytes,      \* inbound(): the frame cut from buf
    frames,        \* the frames handed to workers, in hand-over order
    routed,        \* per frame handed over: the index of the worker it went to
    workers,       \* per active worker: where parse() is and the message held
    idleStopped,   \* how many of the other workers have returned
    dropped,       \* frames whose Parse returned an error
    Inbound,       \* channel Inbound (capacity 1)
    delivered,     \* what the Inbound consumer received, in order
    Error,         \* channel Error (capacity 1)
    errorsSeen,    \* the errors the Error consumer received
    Shutdown,      \* channel Shutdown (capacity 1)
    parserShutdown,\* parserShutdown is closed
    connClosed,    \* conn.Close() was called
    connBroken,    \* a write to the transport has failed
    writerPc,      \* where outbound() is
    writerMsg,     \* outbound(): msg
    Outbound,      \* channel Outbound (capacity 1)
    accepted,      \* the messages accepted on Outbound, in order
    connOut,       \* the bytes written to the transport, in order
    lateWrites,    \* successful writes made after conn.Close()
    nErr,          \* per task: sends on Error completed
    nShut,         \* per task: sends on Shutdown completed
    readErr,       \* the error conn.Read returned to the reader
    callerShut,    \* shutdown signals the caller has sent
    shutdownClosed,\* the caller has closed channel Shutdown
    codecPc,       \* where the caller of the match codec is
    codecOp,       \* what it works on: "field", "match" or "oxmid"
    builtMatch,    \* the Match being built
    builtField,    \* the MatchField built
    wireData,      \* the bytes marshalled, or received from the peer
    decoded,       \* the outcome of the last UnmarshalBinary
    tcp,           \* the TCP value in the caller's hands
    tcpPc,         \* where the caller of the TCP accessors is
    tcpOptions,    \* what GetOptions returned
    tcpPayload     \* what GetPayload returned

readerVars == <<rcvd, off, totalLen, marked, hdrSeen, readerPc, readerErr,
                msgBytes, readErr>>
workerVars == <<workers, idleStopped, dropped>>
writerVars == <<writerPc, writerMsg, connOut, lateWrites, connBroken>>
chanVars   == <<Inbound, Error, Shutdown, Outbound, parserShutdown, connClosed>>
envVars    == <<wire, fine, delivered, errorsSeen, accepted, callerShut>>
streamVars == <<readerVars, frames, routed, workerVars, writerVars, chanVars,
                envVars, nErr, nShut, shutdownClosed>>
codecVars == <<codecPc, codecOp, builtMatch, builtField, wireData, decoded>>
tcpVars == <<tcp, tcpPc, tcpOptions, tcpPayload>>
vars == <<streamVars, codecVars, tcpVars>>

\* nothing decoded yet
NoResult ==
    [status |-> "none", err |-> "", f |-> ZeroField, m |-> ZeroMatch, n |-> 0]

\* the codec is not in use
CodecOff ==
    /\ codecPc = "off"
    /\ codecOp = "none"
    /\ builtMatch = ZeroMatch
    /\ builtField = ZeroField
    /\ wireData = <<>>
    /\ decoded = NoResult

\* the largest uint8: TCP.HdrLen is a uint8
MaxUint8 == 255

\* a TCP value as a caller sets it up: the header length in 32-bit words
\* (uint8) and Data, the options followed by the payload
Tcp(hdrLen, data) == [HdrLen |-> hdrLen, Data |-> data]

\* what GetOptions and GetPayload return: the bytes, or nil and the error
TcpResult(status, val, err) == [status |-> status, val |-> val, err |-> err]

\* neither accessor was called yet
NotCalled == TcpResult("none", <<>>, "")

\* the TCP accessors are not in use
TcpOff ==
    /\ tcp = Tcp(0, <<>>)
    /\ tcpPc = "off"
    /\ tcpOptions = NotCalled
    /\ tcpPayload = NotCalled

NoMsg == [start |-> 0, len |-> 0, marked |-> FALSE, hdrSeen |-> 0]

(* ------------------------------------------------------------------ *)
(* The reader's view of buf                                             *)
(* ------------------------------------------------------------------ *)
\* buf.Bytes()[i] of a buffer whose front is stream position o
BufByte(o, m, i) ==
    IF m /\ i \in 8..11 THEN OversizeVendor[i - 7] ELSE WireByte(wire, o + i)

\* binary.BigEndian.Uint16(buf.Bytes()[i:])
BufU16(o, m, i) == BufByte(o, m, i) * 256 + BufByte(o, m, i + 1)

\* binary.BigEndian.Uint32(buf.Bytes()[i:])
BufU32(o, m, i) == BufU16(o, m, i) * 65536 + BufU16(o, m, i + 2)

\* Faulty variant: every Experimenter message gets the oversize mark.
FrameByteAlwaysMarked(f, i) ==
    IF WireByte(wire, f.start + 1) = Type_Experimenter /\ i \in 8..11
    THEN OversizeVendor[i - 7]
    ELSE WireByte(wire, f.start + i)

\* Byte i of a frame cut from the stream.
FrameByte(f, i) ==
    IF f.marked /\ i \in 8..11 THEN OversizeVendor[i - 7]
    ELSE WireByte(wire, f.start + i)

\* xid := binary.BigEndian.Uint32(msgBytes[4:])
Xid(f) ==
    ((FrameByte(f, 4) * 256 + FrameByte(f, 5)) * 256 + FrameByte(f, 6)) * 256
        + FrameByte(f, 7)

\* Faulty variant: workers are chosen by the frame's place in the stream,
\* in turn, not by its xid.
WorkerKeyByPosition(f) == (f.start \div MinMsgLen) % 2

\* Faulty variant: the xid is reduced modulo the number of workers in use,
\* not the size of the pool.
WorkerKeyModInUse(f) == Xid(f) % Cardinality(ActiveKeys)

\* workerKey := int(xid % uint32(len(m.workers)))
WorkerKey(f) == Xid(f) % numParserGoroutines

\* Faulty variant: the oversize test does not look at the property type.
DecodeHeaderAnyProperty(o, n, m) ==
    LET msgType == BufByte(o, m, 1)
        declared == BufU16(o, m, 2)
        Checked(tl, mk) ==
            [totalLen |-> tl, marked |-> mk,
             out |-> IF tl < MinMsgLen THEN "invalid" ELSE "go"]
        Break == [totalLen |-> declared, marked |-> m, out |-> "break"]
    IN IF msgType # Type_Experimenter THEN Checked(declared, m)
       ELSE IF n < VendorHeaderLen THEN Break
       ELSE IF BufU32(o, m, 12) # Type_PacketIn2 THEN Checked(declared, m)
       ELSE IF n < PacketIn2PeekLen THEN Break
       ELSE IF declared < BufU16(o, m, 18)
            THEN Checked(declared + OversizeIncrement, TRUE)
       ELSE Checked(declared, m)

\* Faulty variant: a message that is not an Experimenter message is taken to
\* be its 8-byte header alone, whatever length it declares.
DecodeHeaderHeaderOnly(o, n, m) ==
    LET msgType == BufByte(o, m, 1)
        declared == BufU16(o, m, 2)
        Checked(tl, mk) ==
            [totalLen |-> tl, marked |-> mk,
             out |-> IF tl < MinMsgLen THEN "invalid" ELSE "go"]
        Break == [totalLen |-> declared, marked |-> m, out |-> "break"]
    IN IF msgType # Type_Experimenter
       THEN Checked(Min(declared, MinMsgLen), m)
       ELSE IF n < VendorHeaderLen THEN Break
       ELSE IF BufU32(o, m, 12) # Type_PacketIn2 THEN Checked(declared, m)
       ELSE IF n < PacketIn2PeekLen THEN Break
       ELSE IF BufU16(o, m, 16) = NXPINT_PACKET /\ declared < BufU16(o, m, 18)
            THEN Checked(declared + OversizeIncrement, TRUE)
       ELSE Checked(declared, m)

\* The "if totalLen == 0" block: the length decoded from the header at the
\* front of a buffer of n bytes, whether buf[8:12] gets overwritten, and
\* how the block ends: "break" (wait for more bytes), "invalid" (totalLen
\* below the minimum) or "go".
DecodeHeader(o, n, m) ==
    LET msgType == BufByte(o, m, 1)
        declared == BufU16(o, m, 2)
        Checked(tl, mk) ==
            [totalLen |-> tl, marked |-> mk,
             out |-> IF tl < MinMsgLen THEN "invalid" ELSE "go"]
        Break == [totalLen |-> declared, marked |-> m, out |-> "break"]
    IN IF msgType # Type_Experimenter THEN Checked(declared, m)
       ELSE IF n < VendorHeaderLen THEN Break
       ELSE IF BufU32(o, m, 12) # Type_PacketIn2 THEN Checked(declared, m)
       ELSE IF n < PacketIn2PeekLen THEN Break
       ELSE IF BufU16(o, m, 16) = NXPINT_PACKET /\ declared < BufU16(o, m, 18)
            THEN Checked(declared + OversizeIncrement, TRUE)
       ELSE Checked(declared, m)

\* Faulty variant: no read error is taken for the closed connection's.
ReadErrNeverClosed(e) == FALSE

\* conn.Read's error e is the one a closed connection gives
ReadErrIsClosed(e) == e = "closed"

\* Faulty variant: the reader signals Shutdown without publishing the error.
ShutdownWithoutError == "pubShutdown"

\* where the reader goes when it has a fatal error to report
ReaderFaultEntry == "pubErr"

\* One pass of "for buf.Len() >= 4 { ... }" up to the next point at which
\* the reader blocks: the conn.Read, the send on Error, or the send to a
\* worker; "panic" is the run-time panic of msgBytes[4:] / Uint32 on a
\* frame shorter than 8 bytes.
Loop(r, o, t, m, hs) ==
    LET n == r - o
        Same(pc) == [pc |-> pc, off |-> o, totalLen |-> t, marked |-> m,
                     hdrSeen |-> hs, err |-> "none", msg |-> NoMsg]
    IN IF n < HeaderPeek THEN Same("read")
       ELSE
         LET d == IF t = 0 THEN DecodeHeader(o, n, m)
                  ELSE [totalLen |-> t, marked |-> m, out |-> "go"]
             seen == IF t = 0 THEN Min(n, PacketIn2PeekLen) ELSE hs
         IN CASE d.out = "break" ->
                   [Same("read") EXCEPT !.totalLen = d.totalLen, !.hdrSeen = seen]
              [] d.out = "invalid" ->
                   [Same(ReaderFaultEntry) EXCEPT !.totalLen = d.totalLen,
                        !.hdrSeen = seen, !.err = "invalid-length"]
              [] d.out = "go" /\ n < d.totalLen ->
                   [Same("read") EXCEPT !.totalLen = d.totalLen,
                        !.marked = d.marked, !.hdrSeen = seen]
              [] d.out = "go" /\ n >= d.totalLen ->
                   [pc |-> IF d.totalLen < MinMsgLen THEN "panic" ELSE "dispatch",
                    off |-> o + d.totalLen, totalLen |-> d.totalLen,
                    marked |-> FALSE, hdrSeen |-> seen, err |-> "none",
                    msg |-> [start |-> o, len |-> d.totalLen,
                             marked |-> d.marked, hdrSeen |-> seen]]

\* the reader's variables after a pass over the loop
ReaderAfter(l) ==
    /\ readerPc' = l.pc
    /\ off' = l.off
    /\ totalLen' = l.totalLen
    /\ marked' = l.marked
    /\ hdrSeen' = l.hdrSeen
    /\ readerErr' = l.err
    /\ msgBytes' = l.msg

\* The sizes conn.Read may return now.
ReadSizes ==
    LET rem == WireLen(wire) - rcvd
        full == Min(TmpBufSize, rem)
    IN IF rem = 0 THEN {}
       ELSE IF fine /\ rcvd - off < MaxFine
            THEN (1..Min(MaxChunk, rem)) \cup {full}
            ELSE {full}

\* The process is gone once a goroutine has panicked.
Running == readerPc \notin {"panic", "sendOnClosed"} /\ writerPc # "sendOnClosed"

(* ------------------------------------------------------------------ *)
(* The reader: MessageStream.inbound                                    *)
(* ------------------------------------------------------------------ *)
\* n, err := m.conn.Read(tmpBuf) returns n bytes; buf.Write; the loop.
ReaderRead ==
    /\ readerPc = "read"
    /\ ~connClosed
    /\ \E n \in ReadSizes :
          /\ rcvd' = rcvd + n
          /\ ReaderAfter(Loop(rcvd + n, off, totalLen, marked, hdrSeen))
    /\ UNCHANGED <<codecVars, tcpVars, shutdownClosed, readErr, frames, routed, workerVars, writerVars, chanVars, envVars,
                   nErr, nShut>>

\* conn.Read returned the error e: return silently or go and publish it.
ReadFailed(e) ==
    /\ readErr' = e
    /\ IF ReadErrIsClosed(e)
       THEN readerPc' = "done" /\ readerErr' = readerErr
       ELSE readerPc' = ReaderFaultEntry /\ readerErr' = "read"
    /\ UNCHANGED <<codecVars, tcpVars, shutdownClosed, rcvd, off, totalLen, marked, hdrSeen, msgBytes, frames, routed,
                   workerVars, writerVars, chanVars, envVars, nErr, nShut>>

\* the transport fails under the reader (EOF, reset by the peer)
ReaderReadFault ==
    /\ readerPc = "read"
    /\ ~connClosed
    /\ ReadFailed("io")

\* the read of a connection the writer has closed
ReaderReadClosed ==
    /\ readerPc = "read"
    /\ connClosed
    /\ ReadFailed("closed")

\* m.Error <- err
ReaderPubErr ==
    /\ readerPc = "pubErr"
    /\ Len(Error) < ChanCap
    /\ Error' = Append(Error, readerErr)
    /\ nErr' = [nErr EXCEPT !.reader = @ + 1]
    /\ readerPc' = "pubShutdown"
    /\ UNCHANGED <<codecVars, tcpVars, shutdownClosed, rcvd, off, totalLen, marked, hdrSeen, readerErr, msgBytes,
                   readErr, frames, routed, workerVars, writerVars, Inbound, Shutdown,
                   Outbound, parserShutdown, connClosed, envVars, nShut>>

\* m.Shutdown <- true; return
ReaderPubShutdown ==
    /\ readerPc = "pubShutdown"
    /\ ~shutdownClosed
    /\ Len(Shutdown) < ChanCap
    /\ Shutdown' = Append(Shutdown, "reader")
    /\ nShut' = [nShut EXCEPT !.reader = @ + 1]
    /\ readerPc' = "done"
    /\ UNCHANGED <<codecVars, tcpVars, shutdownClosed, rcvd, off, totalLen, marked, hdrSeen, readerErr, msgBytes,
                   readErr, frames, routed, workerVars, writerVars, Inbound, Error,
                   Outbound, parserShutdown, connClosed, envVars, nErr>>

(* ------------------------------------------------------------------ *)
(* The workers: streamWorker.parse                                      *)
(* ------------------------------------------------------------------ *)
\* Faulty variant: the worker sends the message whatever Parse returned.
AfterParseAlwaysSend(ok, id) == [pc |-> "send", msg |-> id]

\* Faulty variant: the worker goes back to its select without sending.
AfterParseNeverSend(ok, id) == [pc |-> "select", msg |-> 0]

\* What a worker does with message id once Parse has returned: send it on
\* inbound, or (err != nil) log and go back to the select.
AfterParse(ok, id) ==
    IF ok THEN [pc |-> "send", msg |-> id] ELSE [pc |-> "select", msg |-> 0]

\* Faulty variant: the hand-over does not wait for the worker; a frame
\* given to a busy worker replaces the message it holds.
DispatchReadyAlways(k) == TRUE

\* the send on the unbuffered w.Full completes when worker k is in its
\* select
DispatchReady(k) == workers[k].pc = "select"

\* m.workers[workerKey].Full <- bytes.NewBuffer(msgBytes) meets worker k's
\* b := <-w.Full (the channel is unbuffered); the worker calls Parse, the
\* reader resets totalLen and goes on with its loop.
ReaderDispatch(k) ==
    /\ readerPc = "dispatch"
    /\ WorkerKey(msgBytes) = k
    /\ DispatchReady(k)
    /\ frames' = Append(frames, msgBytes)
    /\ routed' = Append(routed, k)
    /\ \E ok \in BOOLEAN :
          /\ workers' = [workers EXCEPT ![k] = AfterParse(ok, Len(frames) + 1)]
          /\ dropped' = IF ok THEN dropped ELSE dropped \cup {Len(frames) + 1}
    /\ ReaderAfter(Loop(rcvd, off, 0, marked, hdrSeen))
    /\ UNCHANGED <<codecVars, tcpVars, shutdownClosed, rcvd, readErr, idleStopped, writerVars, chanVars, envVars,
                   nErr, nShut>>

\* inbound <- msg
WorkerSend(k) ==
    /\ Running
    /\ workers[k].pc = "send"
    /\ Len(Inbound) < ChanCap
    /\ Inbound' = Append(Inbound, workers[k].msg)
    /\ workers' = [workers EXCEPT ![k] = [pc |-> "select", msg |-> 0]]
    /\ UNCHANGED <<codecVars, tcpVars, shutdownClosed, readerVars, frames, routed, idleStopped, dropped, writerVars, Error,
                   Shutdown, Outbound, parserShutdown, connClosed, envVars,
                   nErr, nShut>>

\* case <-stopCh: return
WorkerStop(k) ==
    /\ Running
    /\ workers[k].pc = "select"
    /\ parserShutdown
    /\ workers' = [workers EXCEPT ![k] = [pc |-> "done", msg |-> 0]]
    /\ UNCHANGED <<codecVars, tcpVars, shutdownClosed, readerVars, frames, routed, idleStopped, dropped, writerVars,
                   chanVars, envVars, nErr, nShut>>

\* case <-stopCh: return, in a worker no xid of the stream selects
IdleWorkerStop ==
    /\ Running
    /\ parserShutdown
    /\ idleStopped < numParserGoroutines - Cardinality(ActiveKeys)
    /\ idleStopped' = idleStopped + 1
    /\ UNCHANGED <<codecVars, tcpVars, shutdownClosed, readerVars, frames, routed, workers, dropped, writerVars, chanVars,
                   envVars, nErr, nShut>>

(* ------------------------------------------------------------------ *)
(* The writer: MessageStream.outbound                                   *)
(* ------------------------------------------------------------------ *)
\* data, _ := msg.MarshalBinary(): message number m is the 8-byte message
\* with xid m
Marshal(m) == Hdr(0, 8, m)

\* Faulty variant: the writer keeps writing the bytes of the first message.
WriterDataStale(msg) == Marshal(1)

\* the bytes the writer hands to conn.Write for msg
WriterData(msg) == Marshal(msg)

\* where the writer goes after the shutdown branch's conn.Close()
AfterConnClose == "stopWorkers"

\* case <-m.Shutdown: m.conn.Close()
WriterShutdown ==
    /\ Running
    /\ writerPc = "select"
    /\ Shutdown # <<>> \/ shutdownClosed
    /\ Shutdown' = IF Shutdown # <<>> THEN Tail(Shutdown) ELSE Shutdown
    /\ connClosed' = TRUE
    /\ writerPc' = AfterConnClose
    /\ UNCHANGED <<codecVars, tcpVars, shutdownClosed, readerVars, frames, routed, workerVars, writerMsg, connOut,
                   lateWrites, connBroken, Inbound, Error, Outbound,
                   parserShutdown, envVars, nErr, nShut>>

\* close(m.parserShutdown); return
WriterStopWorkers ==
    /\ Running
    /\ writerPc = "stopWorkers"
    /\ parserShutdown' = TRUE
    /\ writerPc' = "done"
    /\ UNCHANGED <<codecVars, tcpVars, shutdownClosed, readerVars, frames, routed, workerVars, writerMsg, connOut,
                   lateWrites, connBroken, Inbound, Error, Shutdown, Outbound,
                   connClosed, envVars, nErr, nShut>>

\* case msg := <-m.Outbound
WriterTake ==
    /\ Running
    /\ writerPc = "select"
    /\ Outbound # <<>>
    /\ writerMsg' = Head(Outbound)
    /\ Outbound' = Tail(Outbound)
    /\ writerPc' = "write"
    /\ UNCHANGED <<codecVars, tcpVars, shutdownClosed, readerVars, frames, routed, workerVars, connOut, lateWrites,
                   connBroken, Inbound, Error, Shutdown, parserShutdown,
                   connClosed, envVars, nErr, nShut>>

\* m.conn.Write(data) writes all of data and returns no error
WriterWriteOk ==
    /\ Running
    /\ writerPc = "write"
    /\ ~connBroken /\ ~connClosed
    /\ connOut' = connOut \o WriterData(writerMsg)
    /\ writerPc' = "select"
    /\ UNCHANGED <<codecVars, tcpVars, shutdownClosed, readerVars, frames, routed, workerVars, writerMsg, lateWrites,
                   connBroken, chanVars, envVars, nErr, nShut>>

\* How many bytes a failing conn.Write may have written: fewer than
\* len(data), none once the connection is broken or closed.
PartialWrites(data) ==
    IF connBroken \/ connClosed THEN {0} ELSE {0, Len(data) \div 2}

\* m.conn.Write(data) returns an error
WriterWriteFail ==
    /\ Running
    /\ writerPc = "write"
    /\ \E n \in PartialWrites(WriterData(writerMsg)) :
          connOut' = connOut \o SubSeq(WriterData(writerMsg), 1, n)
    /\ connBroken' = TRUE
    /\ lateWrites' = lateWrites + (IF connClosed THEN 1 ELSE 0)
    /\ writerPc' = "pubErr"
    /\ UNCHANGED <<codecVars, tcpVars, shutdownClosed, readerVars, frames, routed, workerVars, writerMsg, chanVars,
                   envVars, nErr, nShut>>

\* m.Error <- err
WriterPubErr ==
    /\ Running
    /\ writerPc = "pubErr"
    /\ Len(Error) < ChanCap
    /\ Error' = Append(Error, "write")
    /\ nErr' = [nErr EXCEPT !.writer = @ + 1]
    /\ writerPc' = "pubShutdown"
    /\ UNCHANGED <<codecVars, tcpVars, shutdownClosed, readerVars, frames, routed, workerVars, writerMsg, connOut,
                   lateWrites, connBroken, Inbound, Shutdown, Outbound,
                   parserShutdown, connClosed, envVars, nShut>>

\* m.Shutdown <- true, then back to the select
WriterPubShutdown ==
    /\ Running
    /\ writerPc = "pubShutdown"
    /\ ~shutdownClosed
    /\ Len(Shutdown) < ChanCap
    /\ Shutdown' = Append(Shutdown, "writer")
    /\ nShut' = [nShut EXCEPT !.writer = @ + 1]
    /\ writerPc' = "select"
    /\ UNCHANGED <<codecVars, tcpVars, shutdownClosed, readerVars, frames, routed, workerVars, writerMsg, connOut,
                   lateWrites, connBroken, Inbound, Error, Outbound,
                   parserShutdown, connClosed, envVars, nErr>>

(* ------------------------------------------------------------------ *)
(* The users of the stream                                              *)
(* ------------------------------------------------------------------ *)
\* <-m.Inbound
InboundConsume ==
    /\ Running
    /\ Inbound # <<>>
    /\ delivered' = Append(delivered, Head(Inbound))
    /\ Inbound' = Tail(Inbound)
    /\ UNCHANGED <<codecVars, tcpVars, shutdownClosed, readerVars, frames, routed, workerVars, writerVars, Error, Shutdown,
                   Outbound, parserShutdown, connClosed, wire, fine, errorsSeen,
                   accepted, callerShut, nErr, nShut>>

\* <-m.Error
ErrorConsume ==
    /\ Running
    /\ Error # <<>>
    /\ errorsSeen' = errorsSeen \cup {Head(Error)}
    /\ Error' = Tail(Error)
    /\ UNCHANGED <<codecVars, tcpVars, shutdownClosed, readerVars, frames, routed, workerVars, writerVars, Inbound, Shutdown,
                   Outbound, parserShutdown, connClosed, wire, fine, delivered,
                   accepted, callerShut, nErr, nShut>>

\* m.Outbound <- msg: the caller submits its next message
Submit ==
    /\ Running
    /\ Len(accepted) < MaxOut
    /\ Len(Outbound) < ChanCap
    /\ Outbound' = Append(Outbound, Len(accepted) + 1)
    /\ accepted' = Append(accepted, Len(accepted) + 1)
    /\ UNCHANGED <<codecVars, tcpVars, shutdownClosed, readerVars, frames, routed, workerVars, writerVars, Inbound, Error,
                   Shutdown, parserShutdown, connClosed, wire, fine, delivered,
                   errorsSeen, callerShut, nErr, nShut>>

\* m.Shutdown <- true: the caller asks for the stream to be torn down
CallerShutdown ==
    /\ Running
    /\ ~shutdownClosed
    /\ callerShut < MaxCallerShutdown
    /\ Len(Shutdown) < ChanCap
    /\ Shutdown' = Append(Shutdown, "caller")
    /\ callerShut' = callerShut + 1
    /\ UNCHANGED <<codecVars, tcpVars, shutdownClosed, readerVars, frames, routed, workerVars, writerVars, Inbound, Error,
                   Outbound, parserShutdown, connClosed, wire, fine, delivered,
                   errorsSeen, accepted, nErr, nShut>>

(* ------------------------------------------------------------------ *)
(* Specifications                                                       *)
(* ------------------------------------------------------------------ *)
\* NewMessageStream: empty channels, all tasks started.
InitStream ==
    /\ rcvd = 0 /\ off = 0 /\ totalLen = 0 /\ marked = FALSE /\ hdrSeen = 0
    /\ readerPc = "read" /\ readerErr = "none" /\ msgBytes = NoMsg
    /\ readErr = "none"
    /\ frames = <<>>
    /\ routed = <<>>
    /\ workers = [k \in ActiveKeys |-> [pc |-> "select", msg |-> 0]]
    /\ idleStopped = 0 /\ dropped = {}
    /\ Inbound = <<>> /\ Error = <<>> /\ Shutdown = <<>> /\ Outbound = <<>>
    /\ parserShutdown = FALSE /\ connClosed = FALSE /\ connBroken = FALSE
    /\ writerPc = "select" /\ writerMsg = 0
    /\ connOut = <<>> /\ lateWrites = 0
    /\ delivered = <<>> /\ errorsSeen = {} /\ accepted = <<>>
    /\ callerShut = 0
    /\ shutdownClosed = FALSE
    /\ nErr = [reader |-> 0, writer |-> 0]
    /\ nShut = [reader |-> 0, writer |-> 0]

\* The streams of the whole-system specification: two frames with the
\* same xid and one for another worker; a frame and a header with an
\* invalid length.
StreamWires ==
    { <<"hello0", "hello0", "hello1">>, <<"echo25", "short5">> }

\* The stream with its tasks and its users; the transport returns whatever
\* has arrived in one read, and may fail under the reader or the writer.
Init ==
    /\ wire \in StreamWires
    /\ fine = FALSE
    /\ InitStream
    /\ CodecOff
    /\ TcpOff

ReaderStep ==
    \/ ReaderRead
    \/ ReaderReadFault
    \/ ReaderReadClosed
    \/ \E k \in ActiveKeys : ReaderDispatch(k)
    \/ ReaderPubErr
    \/ ReaderPubShutdown

WorkerStep ==
    \/ \E k \in ActiveKeys : WorkerSend(k)
    \/ \E k \in ActiveKeys : WorkerStop(k)
    \/ IdleWorkerStop

WriterStep ==
    \/ WriterShutdown
    \/ WriterStopWorkers
    \/ WriterTake
    \/ WriterWriteOk
    \/ WriterWriteFail
    \/ WriterPubErr
    \/ WriterPubShutdown

Next ==
    \/ ReaderStep
    \/ WorkerStep
    \/ WriterStep
    \/ InboundConsume
    \/ ErrorConsume
    \/ Submit
    \/ CallerShutdown

Spec == Init /\ [][Next]_vars

\* What the scheduler and the users guarantee: every task that can take a
\* step eventually takes one, a conn.Read or conn.Write returns, and the
\* user drains Error.  Nothing makes the user drain Inbound, submit
\* messages or ask for a shutdown, and nothing makes the transport fail.
Fairness ==
    /\ WF_vars(ReaderRead)
    /\ WF_vars(ReaderReadClosed)
    /\ WF_vars(ReaderPubErr)
    /\ WF_vars(ReaderPubShutdown)
    /\ \A k \in ActiveKeys : WF_vars(ReaderDispatch(k))
    /\ \A k \in ActiveKeys : WF_vars(WorkerSend(k))
    /\ \A k \in ActiveKeys : WF_vars(WorkerStop(k))
    /\ WF_vars(IdleWorkerStop)
    /\ WF_vars(WriterShutdown)
    /\ WF_vars(WriterStopWorkers)
    /\ WF_vars(WriterTake)
    /\ WF_vars(WriterWriteOk \/ WriterWriteFail)
    /\ WF_vars(WriterPubErr)
    /\ WF_vars(WriterPubShutdown)
    /\ WF_vars(ErrorConsume)

\* The whole system on a stream of two frames, with the fairness above.
InitLive ==
    /\ wire = <<"hello0", "hello0">>
    /\ fine = FALSE
    /\ InitStream
    /\ CodecOff
    /\ TcpOff

FairSpec == InitLive /\ [][Next]_vars /\ Fairness

\* The framer on its own: every stream of one or two segments, read
\* in short and full reads, with workers and a consumer that take what
\* they are given.
InitFramer ==
    /\ wire \in FramerWires
    /\ fine = TRUE
    /\ InitStream
    /\ CodecOff
    /\ TcpOff

NextFramer ==
    \/ ReaderRead
    \/ \E k \in ActiveKeys : ReaderDispatch(k)
    \/ ReaderPubErr
    \/ ReaderPubShutdown
    \/ \E k \in ActiveKeys : WorkerSend(k)
    \/ InboundConsume

SpecFramer == InitFramer /\ [][NextFramer]_vars

\* The streams of the delivery specification: four frames, for two
\* workers or for one.
DeliverWires ==
    { <<"hello0", "hello1", "hello0", "hello1">>,
      <<"hello1", "echo25", "hello0", "hello0">>,
      <<"hello0", "hello0", "hello0", "hello0">> }

\* the numbers of the frames of such a stream
FrameIds == 1..4

InitDeliver ==
    /\ wire \in DeliverWires
    /\ fine = FALSE
    /\ InitStream
    /\ CodecOff
    /\ TcpOff

\* what happens while nobody asks for a shutdown and the transport does
\* not fail: the reader reads and hands over, the workers parse and send,
\* the writer writes what the caller submits, the user receives
NextDeliver ==
    \/ ReaderRead
    \/ \E k \in ActiveKeys : ReaderDispatch(k)
    \/ \E k \in ActiveKeys : WorkerSend(k)
    \/ InboundConsume
    \/ Submit
    \/ WriterTake
    \/ WriterWriteOk

\* The system without shutdown and without faults; every task that can
\* take a step eventually takes one, and the user keeps draining Inbound.
SpecDeliver ==
    /\ InitDeliver
    /\ [][NextDeliver]_vars
    /\ WF_vars(ReaderRead)
    /\ \A k \in ActiveKeys : WF_vars(ReaderDispatch(k))
    /\ \A k \in ActiveKeys : WF_vars(WorkerSend(k))
    /\ WF_vars(InboundConsume)

\* The inbound side on a stream of five frames for two workers: more
\* frames than the tasks and Inbound can hold.
InitQueue ==
    /\ wire = <<"hello0", "hello1", "hello0", "hello1", "hello0">>
    /\ fine = FALSE
    /\ InitStream
    /\ CodecOff
    /\ TcpOff

\* every step of the reader, the workers and the users of the inbound
\* side, with the faults of the transport and the shutdown; the caller
\* submits nothing, so that the writer only waits for the shutdown
NextQueue ==
    \/ ReaderStep
    \/ WorkerStep
    \/ WriterShutdown
    \/ WriterStopWorkers
    \/ InboundConsume
    \/ ErrorConsume
    \/ CallerShutdown

SpecQueue == InitQueue /\ [][NextQueue]_vars

\* close(m.Shutdown): the caller cancels the stream
CallerClose ==
    /\ Running
    /\ ~shutdownClosed
    /\ shutdownClosed' = TRUE
    /\ UNCHANGED <<codecVars, tcpVars, readerVars, frames, routed, workerVars,
                   writerVars, chanVars, envVars, nErr, nShut>>

\* m.Shutdown <- true in the reader, on the channel the caller has closed:
\* the send panics, also when it was already waiting for room
ReaderSendOnClosed ==
    /\ Running
    /\ readerPc = "pubShutdown"
    /\ shutdownClosed
    /\ readerPc' = "sendOnClosed"
    /\ UNCHANGED <<codecVars, tcpVars, shutdownClosed, rcvd, off, totalLen, marked,
                   hdrSeen, readerErr, msgBytes, readErr, frames, routed,
                   workerVars, writerVars, chanVars, envVars, nErr, nShut>>

\* m.Shutdown <- true in the writer, on the channel the caller has closed
WriterSendOnClosed ==
    /\ Running
    /\ writerPc = "pubShutdown"
    /\ shutdownClosed
    /\ writerPc' = "sendOnClosed"
    /\ UNCHANGED <<codecVars, tcpVars, shutdownClosed, readerVars, frames, routed,
                   workerVars, writerMsg, connOut, lateWrites, connBroken,
                   chanVars, envVars, nErr, nShut>>

\* The whole system with a caller that cancels by closing Shutdown.
NextClose ==
    \/ Next
    \/ CallerClose
    \/ ReaderSendOnClosed
    \/ WriterSendOnClosed

SpecClose == Init /\ [][NextClose]_vars

(* ------------------------------------------------------------------ *)
(* The codec as a caller drives it                                      *)
(* ------------------------------------------------------------------ *)
\* MarshalBinary returned r, or panicked
Marshalled(r) ==
    /\ wireData' = r.data
    /\ codecPc' = IF r.status = "ok" THEN "marshalled" ELSE "panic"

\* UnmarshalBinary left r, or panicked
Unmarshalled(r) ==
    /\ decoded' = r @@ NoResult
    /\ codecPc' = IF r.status = "panic" THEN "panic" ELSE "decoded"

\* AddField left r, or panicked
Added(r) ==
    /\ builtMatch' = r.m
    /\ codecPc' = IF r.status = "ok" THEN "building" ELSE "panic"

\* f := NewXxxField(...), or a field set up by hand
FieldBuild(f) ==
    /\ codecPc = "start"
    /\ builtField' = f
    /\ codecOp' = "field"
    /\ codecPc' = "built"
    /\ UNCHANGED <<builtMatch, wireData, decoded, streamVars, tcpVars>>

\* data, err = f.MarshalBinary()
FieldMarshal ==
    /\ codecPc = "built"
    /\ codecOp = "field"
    /\ Marshalled(MatchField_MarshalBinary(builtField))
    /\ UNCHANGED <<codecOp, builtMatch, builtField, decoded, streamVars, tcpVars>>

\* err = new(MatchField).UnmarshalBinary(data)
FieldUnmarshal ==
    /\ codecPc = "marshalled"
    /\ codecOp = "field"
    /\ Unmarshalled(MatchField_UnmarshalBinary(wireData))
    /\ UNCHANGED <<codecOp, builtMatch, builtField, wireData, streamVars, tcpVars>>

\* m := NewMatch()
MatchNew ==
    /\ codecPc = "start"
    /\ builtMatch' = NewMatch
    /\ codecOp' = "match"
    /\ codecPc' = "building"
    /\ UNCHANGED <<builtField, wireData, decoded, streamVars, tcpVars>>

\* m.AddField(f)
MatchAddField(f) ==
    /\ codecPc = "building"
    /\ Len(builtMatch.Fields) < MaxFields
    /\ Added(Match_AddField(builtMatch, f))
    /\ UNCHANGED <<codecOp, builtField, wireData, decoded, streamVars, tcpVars>>

\* data, err = m.MarshalBinary()
MatchMarshal ==
    /\ codecPc = "building"
    /\ Marshalled(Match_MarshalBinary(builtMatch))
    /\ UNCHANGED <<codecOp, builtMatch, builtField, decoded, streamVars, tcpVars>>

\* err = new(Match).UnmarshalBinary(data)
MatchUnmarshal ==
    /\ codecPc = "marshalled"
    /\ codecOp = "match"
    /\ Unmarshalled(Match_UnmarshalBinary(ZeroMatch, wireData))
    /\ UNCHANGED <<codecOp, builtMatch, builtField, wireData, streamVars, tcpVars>>

\* err = m.UnmarshalBinary(data) once more, on the Match that has just
\* been decoded into without error
MatchUnmarshalAgain(bytes) ==
    /\ codecPc = "decoded"
    /\ codecOp = "match"
    /\ decoded.status = "ok"
    /\ codecOp' = "rematch"
    /\ wireData' = bytes
    /\ decoded' = Match_UnmarshalBinary(decoded.m, bytes) @@ NoResult
    /\ codecPc' = IF Match_UnmarshalBinary(decoded.m, bytes).status = "panic"
                  THEN "panic" ELSE "decodedAgain"
    /\ UNCHANGED <<builtMatch, builtField, streamVars, tcpVars>>

\* bytes arrive from the peer, to be decoded as a field, a match block or
\* an OXM id
Receive(op, bytes) ==
    /\ codecPc = "start"
    /\ codecOp' = op
    /\ wireData' = bytes
    /\ codecPc' = "marshalled"
    /\ UNCHANGED <<builtMatch, builtField, decoded, streamVars, tcpVars>>

\* err = new(OxmId).UnmarshalBinary(data)
OxmIdUnmarshal ==
    /\ codecPc = "marshalled"
    /\ codecOp = "oxmid"
    /\ Unmarshalled(OxmId_UnmarshalBinary(wireData))
    /\ UNCHANGED <<codecOp, builtMatch, builtField, wireData, streamVars, tcpVars>>

\* The codec on its own: the stream is idle.
InitCodec ==
    /\ InitStream
    /\ wire = <<>>
    /\ fine = FALSE
    /\ codecPc = "start"
    /\ codecOp = "none"
    /\ builtMatch = ZeroMatch
    /\ builtField = ZeroField
    /\ wireData = <<>>
    /\ decoded = NoResult
    /\ TcpOff

NextCodec ==
    \/ \E f \in BuiltFields \cup LiteralFields : FieldBuild(f)
    \/ FieldMarshal
    \/ FieldUnmarshal
    \/ MatchNew
    \/ \E f \in BuiltFields \cup LiteralFields : MatchAddField(f)
    \/ MatchMarshal
    \/ MatchUnmarshal
    \/ \E b \in ReceivedTlvs \cup ByteArrayTlvs \cup ShortTlvs \cup MacTlvs :
          Receive("field", b)
    \/ \E b \in ReceivedTlvs : Receive("oxmid", b)
    \/ \E b \in ReceivedMatches \cup ShortMatches \cup OverrunMatches :
          Receive("match", b)
    \/ OxmIdUnmarshal
    \/ \E b \in AgainMatches : MatchUnmarshalAgain(b)

SpecCodec == InitCodec /\ [][NextCodec]_vars

\* the widest field a builder makes: a masked IPv6 address, 36 bytes
WideField ==
    BuildWith(Builders.NewIpv6SrcField,
              <<32, 1, 13, 184, 0, 0, 0, 0, 0, 0, 0, 0, 0, 0, 0, 1>>,
              <<(<<255, 255, 255, 255, 255, 255, 255, 255,
                   0, 0, 0, 0, 0, 0, 0, 0>>)>>)

\* NewMatch() followed by m.AddField(f) for each f of fields, where no
\* Len() panics
MatchOf(fields) ==
    [Type |-> MatchType_OXM,
     Length |-> (4 + SumFieldLen(fields, 1, Len(fields))) % 65536,
     Fields |-> fields]

\* A caller that fills one long match: it has added LongPrefix fields, 36
\* bytes each, which makes an inner length of 65524.
InitLong ==
    /\ InitStream
    /\ wire = <<>>
    /\ fine = FALSE
    /\ codecPc = "building"
    /\ codecOp = "match"
    /\ builtMatch = MatchOf([i \in 1..LongPrefix |-> WideField])
    /\ builtField = ZeroField
    /\ wireData = <<>>
    /\ decoded = NoResult
    /\ TcpOff

\* m.AddField(f) in the loop that fills the long match
MatchAddWide ==
    /\ codecPc = "building"
    /\ Len(builtMatch.Fields) < MaxLongFields
    /\ Added(Match_AddField(builtMatch, WideField))
    /\ UNCHANGED <<codecOp, builtField, wireData, decoded, streamVars, tcpVars>>

\* data, err = m.MarshalBinary() at any point of the loop
MatchMarshalLong ==
    /\ Len(builtMatch.Fields) > LongPrefix
    /\ MatchMarshal

NextLong ==
    \/ MatchAddWide
    \/ MatchMarshalLong

SpecLong == InitLong /\ [][NextLong]_vars

(* ------------------------------------------------------------------ *)
(* TCP: the options and the payload held in Data                        *)
(* ------------------------------------------------------------------ *)
\* Faulty variant: the size is left in 32-bit words.
OptionsSizeInWords(t) == t.HdrLen - 5

\* TCP.getOptionsSize(): (int(t.HdrLen) - 5) * 4
getOptionsSize(t) == (t.HdrLen - 5) * 4

\* Faulty variant: a header of exactly 5 words is refused too.
validateHdrLenOffByOne(t) ==
    IF t.HdrLen <= 5 THEN "errHdrLenTooSmall"
    ELSE IF Len(t.Data) < getOptionsSize(t) THEN "errHdrLenTooLarge"
    ELSE "nil"

\* TCP.validateHdrLen(): the error it returns, "nil" for none
validateHdrLen(t) ==
    IF t.HdrLen < 5 THEN "errHdrLenTooSmall"
    ELSE IF Len(t.Data) < getOptionsSize(t) THEN "errHdrLenTooLarge"
    ELSE "nil"

\* opt := make([]byte, optionsSize); copy(opt, t.Data[:optionsSize])
OptionsOf(t, optionsSize) ==
    IF optionsSize < 0 \/ optionsSize > Len(t.Data)
    THEN TcpResult("panic", <<>>, "slice")
    ELSE TcpResult("ok", Copy(Zeros(optionsSize), SubSeq(t.Data, 1, optionsSize)),
                   "nil")

\* msg := make([]byte, len(t.Data)-optionsSize); copy(msg, t.Data[optionsSize:])
PayloadOf(t, optionsSize) ==
    IF optionsSize < 0 \/ optionsSize > Len(t.Data)
    THEN TcpResult("panic", <<>>, "slice")
    ELSE TcpResult("ok", Copy(Zeros(Len(t.Data) - optionsSize),
                              From(t.Data, optionsSize)), "nil")

\* TCP.GetOptions()
TCP_GetOptions(t) ==
    IF validateHdrLen(t) # "nil" THEN TcpResult("error", <<>>, validateHdrLen(t))
    ELSE OptionsOf(t, getOptionsSize(t))

\* TCP.GetPayload()
TCP_GetPayload(t) ==
    IF validateHdrLen(t) # "nil" THEN TcpResult("error", <<>>, validateHdrLen(t))
    ELSE PayloadOf(t, getOptionsSize(t))

\* the Data of the package's test: eight zero option bytes, then "hello"
TestData == <<0, 0, 0, 0, 0, 0, 0, 0, 104, 101, 108, 108, 111>>

\* the contents of Data: 0 to MaxData bytes, all different, and the eight
\* zero bytes followed by "hello" of the package's test
TcpDatas ==
    { [i \in 1..n |-> i] : n \in 0..MaxData }
      \cup { TestData }

\* packet := &TCP{HdrLen: h, Data: d}
TcpSetUp(h, d) ==
    /\ tcpPc = "start"
    /\ tcp' = Tcp(h, d)
    /\ tcpPc' = "ready"
    /\ UNCHANGED <<tcpOptions, tcpPayload, streamVars, codecVars>>

\* val, err := packet.GetOptions()
TcpGetOptions ==
    /\ tcpPc = "ready"
    /\ tcpOptions = NotCalled
    /\ tcpOptions' = TCP_GetOptions(tcp)
    /\ UNCHANGED <<tcp, tcpPc, tcpPayload, streamVars, codecVars>>

\* val, err := packet.GetPayload()
TcpGetPayload ==
    /\ tcpPc = "ready"
    /\ tcpPayload = NotCalled
    /\ tcpPayload' = TCP_GetPayload(tcp)
    /\ UNCHANGED <<tcp, tcpPc, tcpOptions, streamVars, codecVars>>

\* The TCP accessors on their own: the stream and the codec are idle.
InitTcp ==
    /\ InitStream
    /\ wire = <<>>
    /\ fine = FALSE
    /\ CodecOff
    /\ tcp = Tcp(0, <<>>)
    /\ tcpPc = "start"
    /\ tcpOptions = NotCalled
    /\ tcpPayload = NotCalled

NextTcp ==
    \/ \E h \in 0..MaxUint8, d \in TcpDatas : TcpSetUp(h, d)
    \/ TcpGetOptions
    \/ TcpGetPayload

SpecTcp == InitTcp /\ [][NextTcp]_vars

(* ------------------------------------------------------------------ *)
(* Properties of the framer (checked under SpecFramer)                  *)
(* ------------------------------------------------------------------ *)
\* big-endian u16 at stream position pos
WireU16(pos) == WireByte(wire, pos) * 256 + WireByte(wire, pos + 1)

\* the frames cut so far: those handed over and the one in the reader's hands
CutFrames ==
    { frames[i] : i \in DOMAIN frames } \cup
        (IF msgBytes = NoMsg THEN {} ELSE {msgBytes})

\* C1: for a stream of well-formed frames, however it is split into reads,
\* the reader reports no error, the frames it hands over are, in order, the
\* frames of the stream with the same boundaries, and once the whole stream
\* is read and the reader waits for more, all of them have been handed over.
C1_FramesAsSent ==
    LET sent == WireFrames(wire, 0)
    IN WireWellFormed(wire) =>
         /\ readerPc \in {"read", "dispatch"}
         /\ Len(frames) <= Len(sent)
         /\ \A i \in DOMAIN frames :
               /\ frames[i].start = sent[i].start
               /\ frames[i].len = sent[i].len
         /\ (rcvd = WireLen(wire) /\ readerPc = "read")
               => Len(frames) = Len(sent)

\* C4: a header whose length is below 8 (and was not raised by the oversize
\* workaround) makes the reader publish invalid-length and stop; no frame
\* is cut for it.
C4_InvalidLengthRejected ==
    /\ \A f \in CutFrames : f.len >= MinMsgLen
    /\ (totalLen < MinMsgLen /\ readerPc # "read")
          => /\ readerErr = "invalid-length"
             /\ readerPc \in {"pubErr", "pubShutdown", "done"}

\* C5: a frame whose header was decoded with at least 20 bytes buffered and
\* is an Experimenter / PacketIn2 message whose first property is
\* NXPINT_PACKET with a length above the declared length L has L + 65536
\* bytes and carries 10 00 23 20 at [8..12]; every other frame has L bytes.
C5_OversizeLength ==
    \A f \in CutFrames :
        LET L == WireU16(f.start + 2)
            oversize ==
                /\ f.hdrSeen >= 20
                /\ WireByte(wire, f.start + 1) = 4
                /\ WireU16(f.start + 12) = 0 /\ WireU16(f.start + 14) = 30
                /\ WireU16(f.start + 16) = 0
                /\ L < WireU16(f.start + 18)
        IN IF oversize
           THEN /\ f.len = L + 65536
                /\ <<FrameByte(f, 8), FrameByte(f, 9), FrameByte(f, 10),
                     FrameByte(f, 11)>> = <<16, 0, 35, 32>>
           ELSE f.len = L

\* an oversize PacketIn2 frame (declared 40, property length 4096) was
\* handed over with its 65576 bytes and the vendor id overwritten, and so
\* was a 12-byte frame
C5_Witness ==
    /\ \E i \in DOMAIN frames :
          /\ frames[i].len = 65576
          /\ frames[i].marked
          /\ WireU16(frames[i].start + 2) = 40
    /\ \E i \in DOMAIN frames : frames[i].len = 12

\* big-endian u32 of the four stream bytes at pos
WireU32(pos) == WireU16(pos) * 65536 + WireU16(pos + 2)

\* C11: every frame handed over went to one worker, the one whose index is
\* the big-endian u32 of the frame's bytes [4..8] modulo 25; a worker holds
\* only frames routed to it; frames with equal xid went to the same worker.
C11_XidRouting ==
    /\ Len(routed) = Len(frames)
    /\ \A i \in DOMAIN frames :
          routed[i] = WireU32(frames[i].start + 4) % 25
    /\ \A k \in ActiveKeys :
          workers[k].msg # 0 => routed[workers[k].msg] = k
    /\ \A i, j \in DOMAIN frames :
          WireU32(frames[i].start + 4) = WireU32(frames[j].start + 4)
              => routed[i] = routed[j]

\* a frame with xid 25 went to worker 0 and a frame with xid 26 to worker 1
C11_Witness ==
    /\ Len(frames) = 2
    /\ WireU32(frames[1].start + 4) = 25 /\ routed[1] = 0
    /\ WireU32(frames[2].start + 4) = 26 /\ routed[2] = 1

Range(q) == { q[i] : i \in DOMAIN q }

\* C2: two messages with the same xid appear on Inbound in the order their
\* frames were cut from the stream (frames are numbered in that order).
C2_PerXidOrder ==
    LET out == delivered \o Inbound
    IN \A i, j \in DOMAIN out :
          (i < j /\ Xid(frames[out[i]]) = Xid(frames[out[j]]))
              => out[i] < out[j]

\* both frames with xid 0 were delivered, in order, and the frame with
\* xid 1 that followed them on the wire overtook the second
C2_Witness ==
    /\ wire = <<"hello0", "hello0", "hello1">>
    /\ delivered = <<1, 3, 2>>

\* a fatal fault was detected by the reader or the writer
FaultDetected == readerErr # "none" \/ connBroken

AllWorkersStopped ==
    /\ \A k \in ActiveKeys : workers[k].pc = "done"
    /\ idleStopped = numParserGoroutines - Cardinality(ActiveKeys)

\* C3: after a fatal fault, with Error drained, the writer eventually
\* closes the transport and stops the worker pool.
C3_CleanClose == FaultDetected ~> (connClosed /\ parserShutdown)

\* C6: a frame whose Parse failed is never held for sending, never on
\* Inbound and never delivered; Error and Shutdown carry only what the
\* reader, the writer and the caller put there; and no worker stops unless
\* the stop channel was closed.
C6_ParseErrorContained ==
    /\ \A id \in dropped :
          /\ id \notin Range(delivered) \cup Range(Inbound)
          /\ \A k \in ActiveKeys : workers[k].msg # id
    /\ Range(Error) \subseteq {"read", "write", "invalid-length"}
    /\ Range(Shutdown) \subseteq {"reader", "writer", "caller"}
    /\ \A k \in ActiveKeys : workers[k].pc = "done" => parserShutdown

\* the first frame failed to parse, and the same worker then delivered the
\* second frame and the other worker the third
C6_Witness ==
    /\ dropped = {1}
    /\ delivered = <<2, 3>>
    /\ nErr.reader = 0 /\ nShut.reader = 0

\* serializations of the first n accepted messages, concatenated
RECURSIVE Serialized(_)
Serialized(n) ==
    IF n = 0 THEN <<>> ELSE Serialized(n - 1) \o Marshal(accepted[n])

C8_Teardown ==
    /\ [](parserShutdown => connClosed)
    /\ [](connClosed => writerPc \in {"stopWorkers", "done"})
    /\ [](lateWrites = 0)
    /\ (parserShutdown ~> AllWorkersStopped)

\* C9: a read that fails because the writer closed the connection ends
\* the reader with nothing sent on Error or Shutdown; any other read error
\* is sent on Error and then followed by a signal on Shutdown.
C9_SilentExit ==
    /\ readErr = "closed" =>
          /\ connClosed
          /\ readerPc = "done"
          /\ nErr.reader = 0 /\ nShut.reader = 0
    /\ readErr = "io" =>
          /\ readerErr = "read"
          /\ readerPc \in {"pubErr", "pubShutdown", "done"}
          /\ readerPc = "pubErr" => nErr.reader = 0 /\ nShut.reader = 0
          /\ readerPc = "pubShutdown" => nErr.reader = 1 /\ nShut.reader = 0
          /\ readerPc = "done" => nErr.reader = 1 /\ nShut.reader = 1
          /\ nErr.reader = 1 => "read" \in Range(Error) \cup errorsSeen

\* the reader left silently after the caller's shutdown closed the transport
C9_Witness ==
    /\ readErr = "closed"
    /\ readerPc = "done"
    /\ callerShut = 1
    /\ Error = <<>> /\ errorsSeen = {}

\* C10: neither the reader nor the writer has signalled Shutdown more
\* often than it has published an error, and each is about to signal only
\* right after publishing one.
C10_ErrorBeforeShutdown ==
    /\ nShut.reader <= nErr.reader
    /\ nShut.writer <= nErr.writer
    /\ readerPc = "pubShutdown" => nErr.reader = nShut.reader + 1
    /\ writerPc = "pubShutdown" => nErr.writer = nShut.writer + 1
    /\ Cardinality({i \in DOMAIN Shutdown : Shutdown[i] = "reader"})
          <= nErr.reader
    /\ Cardinality({i \in DOMAIN Shutdown : Shutdown[i] = "writer"})
          <= nErr.writer

\* the reader published invalid-length and signalled, and the writer
\* published a write error and signalled
C10_Witness ==
    /\ readerErr = "invalid-length"
    /\ nShut.reader = 1
    /\ nShut.writer = 1


(* ------------------------------------------------------------------ *)
(* Properties of the match codec (checked under SpecCodec)             *)
(* ------------------------------------------------------------------ *)
\* the address a payload holds, an IPv4 address in its 4-byte form
Address(p) == IF PayloadShape[p.type].kind = "ip4" THEN To4(p.bytes) ELSE p.bytes

\* two payloads are the same value
SamePayload(p, q) ==
    /\ p.type = q.type
    /\ p.type # "nil" => p.num = q.num /\ Address(p) = Address(q)

\* two fields agree in class, field, has_mask, length, value and mask
SameField(f, g) ==
    /\ f.Class = g.Class /\ f.Field = g.Field
    /\ f.HasMask = g.HasMask /\ f.Length = g.Length
    /\ SamePayload(f.Value, g.Value)
    /\ SamePayload(f.Mask, g.Mask)

\* a field whose value and mask DecodeMatchField has a decoder for
Admitted(f) == DecoderFor(f.Class, f.Field) \in PayloadTypes

\* the caller marshals and unmarshals the field it built
FieldTrip == codecOp = "field" /\ builtField # ZeroField

\* C13: a field the dispatch table admits survives MarshalBinary followed
\* by UnmarshalBinary: neither panics, UnmarshalBinary returns no error,
\* and the decoded field equals the built one in class, field, has_mask,
\* length, value and mask.
C13_FieldRoundTrip ==
    FieldTrip /\ Admitted(builtField) =>
        /\ codecPc # "panic"
        /\ codecPc = "decoded" =>
              decoded.status = "ok" /\ SameField(decoded.f, builtField)

\* the caller marshals and unmarshals the match it built from builder-made
\* fields
MatchTrip ==
    /\ codecOp = "match"
    /\ builtMatch # ZeroMatch
    /\ \A i \in DOMAIN builtMatch.Fields : builtMatch.Fields[i] \in BuiltFields

\* two field sequences agree field by field
SameFields(fs, gs) ==
    /\ Len(fs) = Len(gs)
    /\ \A i \in DOMAIN fs : SameField(fs[i], gs[i])

\* C14: a match built with NewMatch and AddField from builder-made fields
\* survives MarshalBinary followed by UnmarshalBinary into a fresh Match:
\* nothing panics, UnmarshalBinary returns no error, and type, inner length
\* and the field sequence (a mask being absent where none was given) are
\* those of the built match.
C14_MatchRoundTrip ==
    MatchTrip =>
        /\ codecPc # "panic"
        /\ codecPc = "decoded" =>
              /\ decoded.status = "ok"
              /\ decoded.m.Type = builtMatch.Type
              /\ decoded.m.Length = builtMatch.Length
              /\ SameFields(decoded.m.Fields, builtMatch.Fields)
              /\ \A i \in DOMAIN decoded.m.Fields :
                    ~decoded.m.Fields[i].HasMask => decoded.m.Fields[i].Mask = Nil

\* the sum of Len() over fields[lo..hi], as a number
RECURSIVE TotalLen(_, _, _)
TotalLen(fields, lo, hi) ==
    IF lo > hi THEN 0
    ELSE IF lo = hi THEN MatchField_Len(fields[lo])
    ELSE TotalLen(fields, lo, (lo + hi) \div 2)
           + TotalLen(fields, (lo + hi) \div 2 + 1, hi)

\* n rounded up to a multiple of 8
RoundUpTo8(n) == ((n + 7) \div 8) * 8

\* MarshalBinary was called on a match that NewMatch and AddField built
MatchMarshalCalled ==
    /\ codecOp = "match"
    /\ builtMatch # ZeroMatch
    /\ ~Match_LenPanics(builtMatch)
    /\ codecPc \in {"marshalled", "decoded", "panic"}

\* C15: Match.MarshalBinary returns round_up_to_8(4 + the sum of the field
\* sizes) bytes, a multiple of 8; bytes [2..4] hold the unpadded inner
\* length and every byte after the last field is zero.  One IN_PORT field
\* gives inner length 12 and 16 bytes, the last 4 of them zero.
C15_MatchPadding ==
    MatchMarshalCalled =>
        /\ codecPc # "panic"
        /\ Len(wireData) =
              RoundUpTo8(4 + TotalLen(builtMatch.Fields, 1, Len(builtMatch.Fields)))
        /\ Len(wireData) % 8 = 0
        /\ Uint(SubSeq(wireData, 3, 4)) =
              4 + TotalLen(builtMatch.Fields, 1, Len(builtMatch.Fields))
        /\ \A i \in DOMAIN wireData :
              i > 4 + TotalLen(builtMatch.Fields, 1, Len(builtMatch.Fields))
                 => wireData[i] = 0
        /\ builtMatch.Fields = <<Build("NewInPortField", 3, <<>>)>> =>
              wireData = <<0, 1, 0, 12, 128, 0, 0, 4, 0, 0, 0, 3, 0, 0, 0, 0>>

\* C16: after NewMatch() and any sequence of AddField calls, Match.Length
\* is 4 + the sum of Len() of the added fields, and Match.Len() is
\* Match.Length rounded up to a multiple of 8.
C16_LengthAccounting ==
    codecPc = "building" =>
        /\ builtMatch.Length = 4 + TotalLen(builtMatch.Fields, 1, Len(builtMatch.Fields))
        /\ Match_Len(builtMatch) = RoundUpTo8(builtMatch.Length)

\* MarshalBinary was called on a field a builder made
FieldMarshalCalled ==
    /\ FieldTrip
    /\ builtField \in BuiltFields
    /\ codecPc # "built"

\* C17: for a builder-made field, masked or not, Len() is defined,
\* MarshalBinary returns Len() bytes, and the header's length byte is the
\* number of payload bytes after the 4-byte header.
C17_FieldLength ==
    FieldMarshalCalled =>
        /\ ~MatchField_LenPanics(builtField)
        /\ Len(wireData) = MatchField_Len(builtField)
        /\ builtField.Length = Len(wireData) - 4

\* class | packed field | length | experimenter id iff the class is
\* Experimenter | value | mask iff has_mask
FieldLayout(f) ==
    PutUint(f.Class, 2) \o <<(f.Field * 2 + (IF f.HasMask THEN 1 ELSE 0)) % 256>>
      \o <<f.Length>>
      \o (IF f.Class = OXM_CLASS_EXPERIMENTER THEN PutUint(f.ExperimenterID, 4)
          ELSE <<>>)
      \o PayloadMarshal(f.Value)
      \o (IF f.HasMask THEN PayloadMarshal(f.Mask) ELSE <<>>)

\* MarshalBinary returned for the field the caller set up
FieldMarshalled ==
    /\ FieldTrip
    /\ ~MatchField_LenPanics(builtField)
    /\ codecPc # "built"

\* C18: MatchField.MarshalBinary emits class, packed field byte, length
\* byte, the experimenter id iff the class is Experimenter, the value, and
\* the mask iff has_mask, in that order and with nothing between them;
\* IN_PORT = 3 gives 80 00 00 04 00 00 00 03.
C18_FieldLayout ==
    FieldMarshalled =>
        /\ wireData = FieldLayout(builtField)
        /\ builtField = Build("NewInPortField", 3, <<>>) =>
              wireData = <<128, 0, 0, 4, 0, 0, 0, 3>>

\* UnmarshalBinary of a MatchField or an OxmId was called on received
\* bytes that hold a header and four more bytes
TlvUnmarshalled ==
    /\ codecOp \in {"field", "oxmid"}
    /\ builtField = ZeroField
    /\ codecPc \in {"decoded", "panic"}
    /\ Len(wireData) >= 8

\* the class in bytes [0..2] and the number in bytes [4..8] of the TLV
WireClass == Uint(SubSeq(wireData, 1, 2))
WireExperimenter == Uint(SubSeq(wireData, 5, 8))

\* the decoder went on at offset k: an OxmId ends there; a MatchField has
\* its cursor behind the value and the mask read from there, and a number
\* it decoded as the value is the one at that offset
ContinuedAt(k) ==
    IF codecOp = "oxmid" THEN decoded.status = "ok" /\ decoded.n = k
    ELSE decoded.status = "ok" =>
            /\ decoded.n = k + PayloadLen(decoded.f.Value)
                  + (IF decoded.f.HasMask THEN PayloadLen(decoded.f.Mask) ELSE 0)
            /\ ( /\ decoded.f.Value.type \in PayloadTypes
                 /\ PayloadShape[decoded.f.Value.type].kind = "uint" ) =>
                  decoded.f.Value.num =
                     Uint(SubSeq(wireData, k + 1, k + PayloadLen(decoded.f.Value)))

\* C19: with class 0xFFFF and an id other than 0x4f4e4600, UnmarshalBinary
\* of a MatchField or an OxmId returns the unsupported-experimenter error,
\* records no id and decodes no value; with 0x4f4e4600 it records the id
\* and goes on 4 bytes later; with any other class it reads no id.
C19_ExperimenterId ==
    TlvUnmarshalled =>
        /\ WireClass = OXM_CLASS_EXPERIMENTER /\ WireExperimenter # ONF_EXPERIMENTER_ID =>
              /\ codecPc = "decoded"
              /\ decoded.status = "error"
              /\ decoded.err = "unsupported-experimenter"
              /\ decoded.f.ExperimenterID = 0
              /\ codecOp = "field" => decoded.f.Value = Nil /\ decoded.f.Mask = Nil
        /\ WireClass = OXM_CLASS_EXPERIMENTER /\ WireExperimenter = ONF_EXPERIMENTER_ID =>
              /\ decoded.f.ExperimenterID = ONF_EXPERIMENTER_ID
              /\ ContinuedAt(8)
        /\ WireClass # OXM_CLASS_EXPERIMENTER =>
              /\ decoded.f.ExperimenterID = 0
              /\ ContinuedAt(4)

\* a MatchField TLV of class 0xFFFF with the id 0x4f4e4601 was rejected
C19_Witness ==
    /\ TlvUnmarshalled
    /\ codecOp = "field"
    /\ WireClass = OXM_CLASS_EXPERIMENTER
    /\ WireExperimenter = ONF_EXPERIMENTER_ID + 1
    /\ decoded.status = "error"

\* DecodeMatchField selects no payload decoder for (class, field): the
\* class is none of the four, the field falls to the default of its class,
\* or the field's case assigns no decoder
NoDecoder(class, field) ==
    DecoderFor(class, field) \in {"unsupported", "unhandled", "nil"}

\* DecodeMatchField is called for the TLV at offset k of the received
\* bytes (an experimenter TLV has the ONF id) and selects no decoder
UnknownTlvAt(k) ==
    /\ Len(wireData) >= k + 4
    /\ NoDecoder(Uint(SubSeq(wireData, k + 1, k + 2)), wireData[k + 3] \div 2)
    /\ Uint(SubSeq(wireData, k + 1, k + 2)) = OXM_CLASS_EXPERIMENTER =>
          /\ Len(wireData) >= k + 8
          /\ Uint(SubSeq(wireData, k + 5, k + 8)) = ONF_EXPERIMENTER_ID

\* UnmarshalBinary of a MatchField, or of a Match, was called on received
\* bytes
FieldReceived ==
    codecOp = "field" /\ builtField = ZeroField /\ codecPc \in {"decoded", "panic"}
MatchReceived ==
    codecOp = "match" /\ builtMatch = ZeroMatch /\ codecPc \in {"decoded", "panic"}

\* the size of the first TLV of the received match, where it decodes
FirstTlvLen == MatchField_Len(MatchField_UnmarshalBinary(From(wireData, 4)).f)

\* the received match holds a second TLV behind a first that decodes
SecondTlv ==
    /\ MatchField_UnmarshalBinary(From(wireData, 4)).status = "ok"
    /\ 4 + FirstTlvLen < Uint(SubSeq(wireData, 3, 4))

\* the decoder returned the unknown-field error
UnknownFieldError ==
    /\ codecPc = "decoded"
    /\ decoded.status = "error"
    /\ decoded.err = "unknown-oxm-field"

\* C20: for a (class, field) pair without payload decoder DecodeMatchField
\* returns an error and no value, and Match.UnmarshalBinary stops at that
\* field with the error, keeping only the fields decoded before it.
C20_UnknownField ==
    /\ FieldReceived /\ UnknownTlvAt(0) =>
          UnknownFieldError /\ decoded.f.Value = Nil
    /\ MatchReceived /\ UnknownTlvAt(4) =>
          UnknownFieldError /\ decoded.m.Fields = <<>>
    /\ MatchReceived /\ SecondTlv /\ UnknownTlvAt(4 + FirstTlvLen) =>
          UnknownFieldError /\ Len(decoded.m.Fields) = 1

\* a byte-array TLV has been decoded by MatchField.UnmarshalBinary
ByteArrayDecoded ==
    /\ codecOp = "field"
    /\ codecPc = "decoded"
    /\ decoded.status = "ok"
    /\ decoded.f.Value.type = "ByteArrayField"

\* the size of one side that the masked byte-array rule gives for the
\* header of the decoded field
PerSide(f) == IF f.HasMask THEN f.Length \div 2 ELSE f.Length

\* C21: a decoded byte-array field (TUN_METADATA, XXREG, packet register)
\* holds a value, and a mask when has_mask is set, of header.length / 2
\* bytes when masked and header.length bytes otherwise, and its total
\* Len() is 4 + header.length, for every header length.
C21_MaskedByteArray ==
    ByteArrayDecoded =>
        /\ PayloadLen(decoded.f.Value) = PerSide(decoded.f)
        /\ decoded.f.HasMask => PayloadLen(decoded.f.Mask) = PerSide(decoded.f)
        /\ MatchField_Len(decoded.f) = 4 + decoded.f.Length

\* a masked byte-array TLV of odd header length is decoded to a field
\* whose Len() is one less than 4 + header.length
C21_OddMaskedLength ==
    /\ ByteArrayDecoded
    /\ decoded.f.HasMask
    /\ decoded.f.Length % 2 = 1
    /\ MatchField_Len(decoded.f) = 4 + decoded.f.Length - 1
\* a decoder has run on a TLV or a match block that was cut short
ShortDecoded ==
    /\ codecPc \in {"decoded", "panic"}
    /\ \/ codecOp = "field" /\ wireData \in ShortTlvs
       \/ codecOp = "match" /\ wireData \in ShortMatches

\* C22: MatchField.UnmarshalBinary and Match.UnmarshalBinary, and the
\* payload readers they call, return a short-buffer error when given fewer
\* bytes than the TLV or the match block needs: they neither crash nor
\* succeed on partial data.
C22_ShortBuffer ==
    ShortDecoded => decoded.status = "error" /\ decoded.err = "short-buffer"

\* a cut-short buffer made a decoder read past the end of its data
C22_ShortPanics == ShortDecoded /\ decoded.status = "panic"

\* a cut-short buffer was decoded without an error
C22_ShortAccepted == ShortDecoded /\ decoded.status = "ok"

\* a cut-short buffer was refused with the short-buffer error
C22_ShortRefused ==
    ShortDecoded /\ decoded.status = "error" /\ decoded.err = "short-buffer"
\* the builders that take an optional mask
MaskableBuilders == { name \in DOMAIN Builders : Builders[name].masked }

\* the field in hand is the one the builder returned for x and maskPtr
BuiltBy(name, x, maskPtr) ==
    /\ codecOp = "field"
    /\ codecPc # "start"
    /\ builtField = Build(name, x, maskPtr)

\* what C23 says of the field built from maskPtr and of its bytes
MaskAgrees(f, maskPtr) ==
    /\ f.HasMask <=> maskPtr # <<>>
    /\ f.HasMask => f.Mask.type = f.Value.type
    /\ ~f.HasMask => f.Mask = Nil
    /\ f.Length = PayloadLen(f.Value) * (IF maskPtr # <<>> THEN 2 ELSE 1)
    /\ codecPc \in {"marshalled", "decoded"} =>
          /\ wireData[3] % 2 = (IF maskPtr # <<>> THEN 1 ELSE 0)
          /\ wireData[4] = f.Length
          /\ Len(wireData) = 4 + f.Length

\* C23: a builder that takes an optional mask returns a field with HasMask
\* set and a Mask of the value's shape exactly when a mask was supplied;
\* the low bit of the packed byte and the header length (twice the value
\* size when masked) agree with it; masked ETH_DST marshals to
\* 80 00 07 0c, the 6 value bytes and the 6 mask bytes.
C23_MaskIffHasMask ==
    /\ \A name \in MaskableBuilders :
         \A x \in ArgsOf(Builders[name]), k \in MasksOf(Builders[name]) :
            BuiltBy(name, x, k) => MaskAgrees(builtField, k)
    /\ ( /\ BuiltBy("NewEthDstField", <<1, 2, 3, 4, 5, 6>>,
                     <<(<<255, 255, 255, 0, 0, 0>>)>>)
         /\ codecPc \in {"marshalled", "decoded"} )
          => wireData = <<128, 0, 7, 12, 1, 2, 3, 4, 5, 6, 255, 255, 255, 0, 0, 0>>

\* a builder was given no mask and returned a field with HasMask set and
\* no Mask
C23_HasMaskWithoutMask ==
    /\ \E name \in MaskableBuilders : \E x \in ArgsOf(Builders[name]) :
          BuiltBy(name, x, <<>>)
    /\ builtField.HasMask
    /\ builtField.Mask = Nil
\* v | 0x1000 for a 16-bit v
WithPresentBit(v) == (v \div 8192) * 8192 + 4096 + (v % 4096)

\* MarshalBinary returned for the field NewVlanIdField(v, maskPtr) made
VlanMarshalled(v, maskPtr) ==
    /\ BuiltBy("NewVlanIdField", v, maskPtr)
    /\ codecPc \in {"marshalled", "decoded"}

\* C24: the 16 value bits NewVlanIdField(v, mask) puts on the wire are
\* v | 0x1000, for every vlan id and with or without a mask (100 gives
\* 10 64), and the mask follows unchanged.
C24_VlanPresent ==
    \A v \in VlanIds, k \in VlanMasks :
        VlanMarshalled(v, k) =>
            /\ SubSeq(wireData, 5, 6) = PutUint(WithPresentBit(v), 2)
            /\ v = 100 => SubSeq(wireData, 5, 6) = <<16, 100>>
            /\ k # <<>> => SubSeq(wireData, 7, 8) = PutUint(k[1], 2)
            /\ Len(wireData) = IF k # <<>> THEN 8 ELSE 6

\* NewVlanIdField(100, &mask) with mask 0x0fff was marshalled to
\* 80 00 0d 04 10 64 0f ff
C24_Witness ==
    /\ VlanMarshalled(100, <<4095>>)
    /\ wireData = <<128, 0, 13, 4, 16, 100, 15, 255>>
(* ------------------------------------------------------------------ *)
(* Properties of the TCP accessors (checked under SpecTcp)              *)
(* ------------------------------------------------------------------ *)
\* what C25 says an accessor returns for the TCP value t
ExpectedError(t) ==
    IF t.HdrLen < 5 THEN "errHdrLenTooSmall"
    ELSE IF (t.HdrLen - 5) * 4 > Len(t.Data) THEN "errHdrLenTooLarge"
    ELSE "nil"

\* the result r of an accessor carries the error C25 expects, and nil
\* bytes with it
ErrorAsExpected(r) ==
    r # NotCalled =>
        /\ r.err = ExpectedError(tcp)
        /\ r.err # "nil" => r.status = "error" /\ r.val = <<>>
        /\ r.err = "nil" => r.status = "ok"

\* C25: GetOptions and GetPayload both return nil and errHdrLenTooSmall
\* when HdrLen < 5, nil and errHdrLenTooLarge when (HdrLen - 5) * 4 exceeds
\* len(Data), and no error otherwise; the TCP value is left as it was.
C25_HdrLenErrors ==
    /\ [](ErrorAsExpected(tcpOptions) /\ ErrorAsExpected(tcpPayload))
    /\ [][tcpPc = "ready" => tcp' = tcp]_vars

\* both accessors refused the test's packet of HdrLen 9 as too large
C25_Witness ==
    /\ tcp = Tcp(9, TestData)
    /\ tcpOptions = TcpResult("error", <<>>, "errHdrLenTooLarge")
    /\ tcpPayload = TcpResult("error", <<>>, "errHdrLenTooLarge")

\* the number of option bytes C26 names
OptionBytes(t) == (t.HdrLen - 5) * 4

\* C26: GetOptions returns the first (HdrLen - 5) * 4 bytes of Data and
\* GetPayload the bytes after them, so that options followed by payload
\* is Data; Data itself is left as it was.
C26_OptionsPayloadSplit ==
    /\ []( /\ tcpOptions.status = "ok" =>
                /\ OptionBytes(tcp) \in 0..Len(tcp.Data)
                /\ tcpOptions.val = SubSeq(tcp.Data, 1, OptionBytes(tcp))
           /\ tcpPayload.status = "ok" =>
                /\ OptionBytes(tcp) \in 0..Len(tcp.Data)
                /\ tcpPayload.val = SubSeq(tcp.Data, OptionBytes(tcp) + 1, Len(tcp.Data))
           /\ (tcpOptions.status = "ok" /\ tcpPayload.status = "ok") =>
                tcpOptions.val \o tcpPayload.val = tcp.Data
           /\ tcpOptions.status # "panic" /\ tcpPayload.status # "panic" )
    /\ [][tcpPc = "ready" => tcp'.Data = tcp.Data]_vars

\* the test's packet of HdrLen 7 was split into its eight option bytes
\* and "hello"
C26_Witness ==
    /\ tcp = Tcp(7, TestData)
    /\ tcpOptions = TcpResult("ok", <<0, 0, 0, 0, 0, 0, 0, 0>>, "nil")
    /\ tcpPayload = TcpResult("ok", <<104, 101, 108, 108, 111>>, "nil")
(* ------------------------------------------------------------------ *)
(* Further properties of the running stream                             *)
(* ------------------------------------------------------------------ *)
\* C27: once a write to the transport has failed, nothing more is written
\* to it, the writer's next move out of its select is the shutdown branch
\* (also with messages waiting on Outbound), and it does close the
\* transport and stop the workers.
C27_WriterStopsAfterFault ==
    /\ [][connBroken => connOut' = connOut]_vars
    /\ [][(connBroken /\ writerPc = "select" /\ writerPc' # "select")
             => writerPc' = AfterConnClose]_vars
    /\ (connBroken ~> (connClosed /\ parserShutdown))

\* after a failed write and its shutdown signal the writer has taken the
\* next message from Outbound
C27_WriterGoesOn ==
    /\ connBroken
    /\ nShut.writer > 0
    /\ writerPc = "write"
\* the frame f is an Experimenter message whose header the reader first
\* saw with too few bytes to decide: fewer than 16, or fewer than 20 for
\* a PacketIn2
Deferred(f) ==
    /\ f.start + PacketIn2PeekLen <= WireLen(wire)
    /\ WireByte(wire, f.start + 1) = Type_Experimenter
    /\ \/ f.hdrSeen < VendorHeaderLen
       \/ /\ WireU32(f.start + 12) = Type_PacketIn2
          /\ f.hdrSeen < PacketIn2PeekLen

\* C28: a frame whose Experimenter header was first seen with fewer than
\* 16 buffered bytes (20 for PacketIn2) is cut with the total length and
\* the vendor-id overwrite that the reader decides on when the first 20
\* bytes are buffered at once.
C28_DeferredHeader ==
    \A f \in CutFrames :
        Deferred(f) =>
            /\ f.len = DecodeHeader(f.start, PacketIn2PeekLen, FALSE).totalLen
            /\ f.marked = DecodeHeader(f.start, PacketIn2PeekLen, FALSE).marked

\* an oversize PacketIn2 whose header was first seen with fewer than 20
\* bytes was cut at its declared length, without the overwrite
C28_DeferredCutShort ==
    \E f \in CutFrames :
        /\ Deferred(f)
        /\ f.len = WireU16(f.start + 2)
        /\ ~f.marked
        /\ DecodeHeader(f.start, PacketIn2PeekLen, FALSE).marked
\* C29: with a caller that cancels by closing Shutdown, no task sends on
\* the closed channel, whatever fault the reader or the writer detects at
\* the same time, and the workers' stop channel is closed once: the writer
\* closes it only while it is open, and returns.
C29_SafeCancel ==
    /\ readerPc # "sendOnClosed"
    /\ writerPc # "sendOnClosed"
    /\ writerPc = "stopWorkers" => ~parserShutdown
    /\ parserShutdown => writerPc = "done"

\* the caller closed Shutdown and the reader, reporting a fault, sent on it
C29_ReaderSentOnClosed == shutdownClosed /\ readerPc = "sendOnClosed"

\* the caller closed Shutdown and the writer, reporting a failed write,
\* sent on it
C29_WriterSentOnClosed == shutdownClosed /\ writerPc = "sendOnClosed"

\* the caller closed Shutdown and the writer closed the transport and
\* stopped the workers
C29_ClosedAndTornDown ==
    shutdownClosed /\ connClosed /\ parserShutdown /\ writerPc = "done"
\* frame number id was handed to a worker and its Parse succeeded
Parsed(id) == id \in DOMAIN frames /\ id \notin dropped

\* how often message id was received from Inbound
TimesDelivered(id) == Cardinality({ j \in DOMAIN delivered : delivered[j] = id })

\* the copies of message id: in a worker's hands, on Inbound, delivered
Copies(id) ==
    Cardinality({ k \in ActiveKeys : workers[k].msg = id })
      + Cardinality({ j \in DOMAIN Inbound : Inbound[j] = id })
      + TimesDelivered(id)

\* C30: with no shutdown and no fatal fault, and Inbound drained, every
\* frame handed to a worker whose Parse succeeds is eventually received
\* from Inbound, and received once: at any time there is one copy of it,
\* with the worker, on Inbound or delivered, and none of any other frame.
C30_ExactlyOnce ==
    /\ \A id \in FrameIds : Parsed(id) ~> (TimesDelivered(id) = 1)
    /\ [](\A id \in FrameIds :
            /\ TimesDelivered(id) <= 1
            /\ Parsed(id) => Copies(id) = 1
            /\ ~Parsed(id) => Copies(id) = 0)

\* four frames for two workers were handed over; the second failed to
\* parse and the other three were delivered
C30_Witness ==
    /\ wire = <<"hello0", "hello1", "hello0", "hello1">>
    /\ dropped = {2}
    /\ Len(delivered) = 3
    /\ \A id \in {1, 3, 4} : TimesDelivered(id) = 1

\* the frames cut from the stream and not yet received from Inbound nor
\* dropped by a failed Parse
InFlight ==
    Len(frames) + (IF readerPc = "dispatch" THEN 1 ELSE 0)
      - Len(delivered) - Cardinality(dropped)

\* the workers that hold a message they have not sent yet
HoldingWorkers == { k \in ActiveKeys : workers[k].pc = "send" }

\* C31: the frames cut and not yet received by the Inbound consumer are
\* the one the reader is handing over, one per worker that holds a
\* message, and what Inbound buffers (capacity 1): never more than
\* 25 + 2 = 27, whatever the consumer does.
C31_BoundedInFlight ==
    /\ InFlight = (IF readerPc = "dispatch" THEN 1 ELSE 0)
                    + Cardinality(HoldingWorkers) + Len(Inbound)
    /\ Len(Inbound) <= ChanCap
    /\ Cardinality(ActiveKeys) <= numParserGoroutines
    /\ InFlight <= Cardinality(ActiveKeys) + 2
    /\ InFlight <= numParserGoroutines + 2

\* nothing was received from Inbound: one message is on Inbound, both
\* workers hold one, the reader stands with the fourth frame at the
\* hand-over, and the fifth frame waits in its buffer
C31_Witness ==
    /\ delivered = <<>> /\ dropped = {}
    /\ Len(Inbound) = 1
    /\ HoldingWorkers = ActiveKeys
    /\ readerPc = "dispatch"
    /\ InFlight = 4
    /\ off < rcvd
\* C32: once the writer has handled the shutdown (transport closed,
\* workers told to stop), the reader task terminates, also when it stands
\* with a complete frame at the hand-over to a worker.
C32_ReaderTerminates ==
    (connClosed /\ parserShutdown) ~> (readerPc = "done")

\* the shutdown was handled and the worker of the frame the reader holds
\* has returned: nobody will ever receive from its Full channel
C32_ReaderStuck ==
    /\ connClosed /\ parserShutdown
    /\ readerPc = "dispatch"
    /\ workers[WorkerKey(msgBytes)].pc = "done"
\* the offsets of a frame that are compared with the stream: its first
\* 24 bytes (header, vendor header, first property) and its last byte
FrameOffsets(f) == (0 .. (Min(f.len, 24) - 1)) \cup {f.len - 1}

InnerLength == Uint(SubSeq(wireData, 3, 4))

\* C34: when Match.UnmarshalBinary succeeds on a received block, every
\* field it decoded starts below the inner length read from the wire, and
\* Len() of the decoded match is that inner length rounded up to a
\* multiple of 8.
C34_ConsumedSize ==
    (MatchReceived /\ codecPc = "decoded" /\ decoded.status = "ok"
        /\ Len(wireData) >= 4)
      => /\ ~Match_LenPanics(decoded.m)
         /\ \A i \in DOMAIN decoded.m.Fields :
               4 + SumFieldLen(decoded.m.Fields, 1, i - 1) < InnerLength
         /\ Match_Len(decoded.m) = RoundUp8(InnerLength)

\* a block of inner length 5 decoded without error into one IN_PORT field
\* of 8 bytes: Len() is 16, the inner length rounded up is 8
C34_Overrun ==
    /\ MatchReceived /\ codecPc = "decoded" /\ decoded.status = "ok"
    /\ wireData \in OverrunMatches
    /\ InnerLength = 5
    /\ Len(decoded.m.Fields) = 1
    /\ Match_Len(decoded.m) = 16

\* C35: a field returned by a builder, PACKET_TYPE included, has a (class,
\* field) pair DecodeMatchField has a payload decoder for, and decoding
\* its bytes never ends with the unknown-field error.
C35_BuildersDecodable ==
    (FieldTrip /\ builtField \in BuiltFields) =>
        /\ Admitted(builtField)
        /\ ~UnknownFieldError

\* the bytes of NewPacketTypeField(1, 3) were rejected as an unknown field
C35_PacketTypeRejected ==
    /\ BuiltBy("NewPacketTypeField", <<1, 3>>, <<>>)
    /\ wireData = <<128, 0, 88, 4, 0, 1, 0, 3>>
    /\ UnknownFieldError
    /\ decoded.f.Value = Nil

\* the caller has marshalled the field the builder returned for x
MarshalledFrom(name, x) ==
    /\ BuiltBy(name, x, <<>>)
    /\ codecPc \in {"marshalled", "decoded"}

\* the value byte (offset 4) of the TLV of the field built for y
ValueByteFor(name, y) == MatchField_MarshalBinary(Build(name, y, <<>>)).data[5]

\* C36 as stated: the value byte on the wire of the field built by
\* NewVlanPcpField(p) does not depend on p: it is the byte every other
\* argument gives.
C36_PcpIgnored ==
    \A x \in Args.uint :
        MarshalledFrom("NewVlanPcpField", x) =>
            \A y \in Args.uint : wireData[5] = ValueByteFor("NewVlanPcpField", y)

\* C36 amended: the field built by NewVlanPcpField(p) holds p, and its
\* TLV is the header 80 00 0e 01 followed by the byte p.
C36_PcpStored ==
    \A x \in Args.uint :
        MarshalledFrom("NewVlanPcpField", x) =>
            /\ builtField.Value = Payload("VlanPcpField", x, <<>>)
            /\ wireData = <<128, 0, 14, 1, x>>

\* NewVlanPcpField(3) and NewVlanPcpField(100) differ in their value byte
C36_Witness ==
    /\ MarshalledFrom("NewVlanPcpField", 100)
    /\ wireData[5] = 100
    /\ ValueByteFor("NewVlanPcpField", 3) = 3

\* MatchField.UnmarshalBinary has returned from a whole TLV of a
\* MAC-shaped field: 6 value bytes, and 6 mask bytes if it has a mask
MacTlvDecoded ==
    /\ codecOp = "field"
    /\ codecPc = "decoded"
    /\ Len(wireData) >= 4
    /\ <<WireClass, wireData[3] \div 2>> \in MacFields
    /\ Len(wireData) >= 4 + 6 * (1 + (wireData[3] % 2))

\* C37: decoding a whole MAC-shaped TLV into a new field returns no error,
\* leaves the decoded address (and mask) empty, and moves the cursor by 6
\* for the value and by 6 for the mask.
C37_MacBytesDropped ==
    MacTlvDecoded =>
        /\ decoded.status = "ok"
        /\ PayloadShape[decoded.f.Value.type].kind = "mac"
        /\ decoded.f.Value.bytes = <<>>
        /\ decoded.f.HasMask => decoded.f.Mask.bytes = <<>>
        /\ decoded.n = 4 + 6 * (1 + (wireData[3] % 2))
        /\ PayloadMarshal(decoded.f.Value) = Zeros(6)

\* the ND_SLL TLV 80 00 40 06 01 02 03 04 05 06 was decoded without error
\* into an empty address, the cursor at 10
C37_Witness ==
    /\ MacTlvDecoded
    /\ wireData = <<128, 0, 64, 6, 1, 2, 3, 4, 5, 6>>
    /\ decoded.status = "ok"
    /\ decoded.f.Value = Payload("EthSrcField", 0, <<>>)
    /\ decoded.n = 10

\* the builders that take one number and store it in a u8, u16, u32 or u64
\* value
NumberBuilders ==
    { name \in DOMAIN Builders :
        /\ Builders[name].value \in {"arg", "zero"}
        /\ PayloadShape[Builders[name].type].kind = "uint" }

\* C38: the value bytes of the TLV marshalled from a field a number
\* builder returned for x (without mask) are the big-endian encoding of x
\* in the width of the field.
C38_ValueEncoded ==
    \A name \in NumberBuilders : \A x \in Args.uint :
        MarshalledFrom(name, x) =>
            /\ Len(wireData) = 4 + PayloadShape[Builders[name].type].size
            /\ SubSeq(wireData, 5, Len(wireData))
                  = PutUint(x, PayloadShape[Builders[name].type].size)

\* the TLV of NewIpEcnField(3) carries the value byte 0
C38_EcnDropped ==
    /\ MarshalledFrom("NewIpEcnField", 3)
    /\ wireData = <<128, 0, 18, 1, 0>>

\* UnmarshalBinary has returned without error from its second call on the
\* same Match
DecodedAgain ==
    codecOp = "rematch" /\ codecPc = "decodedAgain" /\ decoded.status = "ok"

\* C39: after a second successful UnmarshalBinary on the same Match, the
\* Match is what a new Match decoded from the last block is: the same
\* Type, Length and Fields, and the same Len().
C39_DecodeReplaces ==
    DecodedAgain =>
        /\ decoded.m = Match_UnmarshalBinary(ZeroMatch, wireData).m
        /\ decoded.m.Length = InnerLength
        /\ Match_Len(decoded.m)
              = Match_Len(Match_UnmarshalBinary(ZeroMatch, wireData).m)

\* a Match that held two fields was decoded again from a block of one
\* IN_PORT TLV: it holds three fields, its Length is 12 and its Len()
\* more than 16
C39_FieldsKept ==
    /\ DecodedAgain
    /\ wireData = <<0, 1, 0, 12, 128, 0, 0, 4, 0, 0, 0, 3, 0, 0, 0, 0>>
    /\ Len(decoded.m.Fields) = 3
    /\ decoded.m.Length = 12
    /\ Match_Len(decoded.m) > 16
====
